---------------------------- MODULE Spec2Model ----------------------------
(***************************************************************************)
(* MySQL -> ClickHouse row migrator (clickhouse_mysql_map-b/main.py).      *)
(*                                                                         *)
(* Text (file names, field names, type names) is a sequence of lexical     *)
(* tokens: <<"users", "-", "users", ".csv">>, <<"tinyint", "(", "1", ")">>.*)
(* Python values are records tagged with their Python type.                *)
(***************************************************************************)
EXTENDS Integers, Sequences, FiniteSets, TLC

(***************************************************************************)
(* Bounds of the model.                                                    *)
(***************************************************************************)
\* largest configured batch_size that is tried (besides 2)
MaxBatchSize == 6
\* number of rows of the source table "big"
NumBigRows == 7
\* length of a string longer than the limit of _clean_string_value
LongLen == 1200

(***************************************************************************)
(* Generic helpers.                                                        *)
(***************************************************************************)
Min(a, b) == IF a < b THEN a ELSE b

Range(s) == {s[i] : i \in DOMAIN s}

\* s[a:b] of Python for 0-based a, b (b < 0 counts from the end)
PySlice(s, a, b) ==
    LET stop == IF b < 0 THEN Len(s) + b ELSE Min(b, Len(s))
    IN  IF stop <= a THEN <<>> ELSE SubSeq(s, a + 1, stop)

\* s.find(tok) of Python: 0-based index of the first occurrence, or -1
PyFind(s, tok) ==
    IF \E i \in DOMAIN s : s[i] = tok
    THEN (CHOOSE i \in DOMAIN s : s[i] = tok /\ \A j \in 1..(i - 1) : s[j] # tok) - 1
    ELSE -1

Whitespace == {" ", "\t"}

RECURSIVE lstrip(_)
lstrip(s) == IF s # <<>> /\ Head(s) \in Whitespace THEN lstrip(Tail(s)) ELSE s

RECURSIVE rstrip(_)
rstrip(s) ==
    IF s # <<>> /\ s[Len(s)] \in Whitespace THEN rstrip(SubSeq(s, 1, Len(s) - 1)) ELSE s

\* str.strip()
strip(s) == lstrip(rstrip(s))

\* str.replace(tok, '')
RECURSIVE remove(_, _)
remove(s, tok) ==
    IF s = <<>> THEN <<>>
    ELSE IF Head(s) = tok THEN remove(Tail(s), tok)
    ELSE <<Head(s)>> \o remove(Tail(s), tok)

\* str.split(sep): the pieces between the occurrences of sep
RECURSIVE split(_, _)
split(s, sep) ==
    LET i == PyFind(s, sep)
    IN  IF i = -1 THEN <<s>>
        ELSE <<SubSeq(s, 1, i)>> \o split(SubSeq(s, i + 2, Len(s)), sep)

startswith(s, prefix) ==
    Len(s) >= Len(prefix) /\ SubSeq(s, 1, Len(prefix)) = prefix

\* str.upper() of one token
UpperTable ==
    [t \in {"tinyint", "smallint", "mediumint", "int", "integer", "bigint",
            "unsigned", "year", "float", "double", "decimal", "char", "varchar",
            "text", "date", "time", "datetime", "timestamp", "enum", "set", "json",
            "blob", "TinyInt", "Decimal", "uuid"} |->
        CASE t = "tinyint" -> "TINYINT" [] t = "smallint" -> "SMALLINT"
          [] t = "mediumint" -> "MEDIUMINT" [] t = "int" -> "INT"
          [] t = "integer" -> "INTEGER" [] t = "bigint" -> "BIGINT"
          [] t = "unsigned" -> "UNSIGNED" [] t = "year" -> "YEAR"
          [] t = "float" -> "FLOAT" [] t = "double" -> "DOUBLE"
          [] t = "decimal" -> "DECIMAL" [] t = "char" -> "CHAR"
          [] t = "varchar" -> "VARCHAR" [] t = "text" -> "TEXT"
          [] t = "date" -> "DATE" [] t = "time" -> "TIME"
          [] t = "datetime" -> "DATETIME" [] t = "timestamp" -> "TIMESTAMP"
          [] t = "enum" -> "ENUM" [] t = "set" -> "SET" [] t = "json" -> "JSON"
          [] t = "blob" -> "BLOB" [] t = "TinyInt" -> "TINYINT"
          [] t = "Decimal" -> "DECIMAL" [] t = "uuid" -> "UUID"]

upper(s) == [i \in DOMAIN s |-> IF s[i] \in DOMAIN UpperTable THEN UpperTable[s[i]] ELSE s[i]]

\* str.lower() of one token of a ClickHouse type
LowerTable ==
    [t \in {"Int8", "UInt8", "Int16", "UInt16", "Int32", "UInt32", "Int64", "UInt64",
            "Float32", "Float64", "Decimal", "String", "Date32", "DateTime64",
            "LowCardinality", "Array", "Bool"} |->
        CASE t = "Int8" -> "int8" [] t = "UInt8" -> "uint8"
          [] t = "Int16" -> "int16" [] t = "UInt16" -> "uint16"
          [] t = "Int32" -> "int32" [] t = "UInt32" -> "uint32"
          [] t = "Int64" -> "int64" [] t = "UInt64" -> "uint64"
          [] t = "Float32" -> "float32" [] t = "Float64" -> "float64"
          [] t = "Decimal" -> "decimal" [] t = "String" -> "string"
          [] t = "Date32" -> "date32" [] t = "DateTime64" -> "datetime64"
          [] t = "LowCardinality" -> "lowcardinality" [] t = "Array" -> "array"
          [] t = "Bool" -> "bool"]

lower(s) == [i \in DOMAIN s |-> IF s[i] \in DOMAIN LowerTable THEN LowerTable[s[i]] ELSE s[i]]

(***************************************************************************)
(* Python dict with insertion order: a sequence of <<key, value>> pairs    *)
(* with distinct keys.                                                     *)
(***************************************************************************)
DictKeys(d) == {d[i][1] : i \in DOMAIN d}

DictGet(d, k) == d[CHOOSE i \in DOMAIN d : d[i][1] = k][2]

\* d[k] = v: a new key is appended, an old key keeps its position
DictSet(d, k, v) ==
    IF k \in DictKeys(d)
    THEN [i \in DOMAIN d |-> IF d[i][1] = k THEN <<k, v>> ELSE d[i]]
    ELSE Append(d, <<k, v>>)

(***************************************************************************)
(* TypeMapper                                                              *)
(***************************************************************************)
TYPE_MAPPING ==
    << <<<<"TINYINT">>, <<"Int8">>>>,
       <<<<"TINYINT", " ", "UNSIGNED">>, <<"UInt8">>>>,
       <<<<"SMALLINT">>, <<"Int16">>>>,
       <<<<"SMALLINT", " ", "UNSIGNED">>, <<"UInt16">>>>,
       <<<<"MEDIUMINT">>, <<"Int32">>>>,
       <<<<"MEDIUMINT", " ", "UNSIGNED">>, <<"UInt32">>>>,
       <<<<"INT">>, <<"Int32">>>>,
       <<<<"INTEGER">>, <<"Int32">>>>,
       <<<<"INT", " ", "UNSIGNED">>, <<"UInt32">>>>,
       <<<<"INTEGER", " ", "UNSIGNED">>, <<"UInt32">>>>,
       <<<<"BIGINT">>, <<"Int64">>>>,
       <<<<"BIGINT", " ", "UNSIGNED">>, <<"UInt64">>>>,
       <<<<"YEAR">>, <<"Int16">>>>,
       <<<<"FLOAT">>, <<"Float32">>>>,
       <<<<"DOUBLE">>, <<"Float64">>>>,
       <<<<"DECIMAL">>, <<"Decimal">>>>,
       <<<<"CHAR">>, <<"String">>>>,
       <<<<"VARCHAR">>, <<"String">>>>,
       <<<<"TINYTEXT">>, <<"String">>>>,
       <<<<"TEXT">>, <<"String">>>>,
       <<<<"MEDIUMTEXT">>, <<"String">>>>,
       <<<<"LONGTEXT">>, <<"String">>>>,
       <<<<"BINARY">>, <<"String">>>>,
       <<<<"VARBINARY">>, <<"String">>>>,
       <<<<"TINYBLOB">>, <<"String">>>>,
       <<<<"BLOB">>, <<"String">>>>,
       <<<<"MEDIUMBLOB">>, <<"String">>>>,
       <<<<"LONGBLOB">>, <<"String">>>>,
       <<<<"DATE">>, <<"Date32">>>>,
       <<<<"TIME">>, <<"DateTime64", "(", "6", ")">>>>,
       <<<<"DATETIME">>, <<"DateTime64", "(", "6", ")">>>>,
       <<<<"TIMESTAMP">>, <<"DateTime64", "(", "6", ")">>>>,
       <<<<"ENUM">>, <<"LowCardinality", "(", "String", ")">>>>,
       <<<<"SET">>, <<"String">>>>,
       <<<<"JSON">>, <<"String">>>>,
       <<<<"GEOMETRY">>, <<"String">>>>,
       <<<<"POINT">>, <<"String">>>>,
       <<<<"LINESTRING">>, <<"String">>>>,
       <<<<"POLYGON">>, <<"String">>>>,
       <<<<"VECTOR">>, <<"Array", "(", "Float32", ")">>>> >>

\* mutant: a base type that is no key of TYPE_MAPPING has no target type
map_mysql_type_to_clickhouse_no_default(mysql_type) ==
    LET base_type == strip(split(upper(mysql_type), "(")[1])
    IN  IF startswith(upper(mysql_type), <<"TINYINT", "(", "1", ")">>)
        THEN <<"Bool">>
        ELSE IF base_type = <<"DECIMAL">> /\ "(" \in Range(mysql_type)
        THEN <<"Decimal", "(">>
             \o PySlice(mysql_type, PyFind(mysql_type, "(") + 1, PyFind(mysql_type, ")"))
             \o <<")">>
        ELSE IF base_type \in DictKeys(TYPE_MAPPING)
        THEN DictGet(TYPE_MAPPING, base_type)
        ELSE <<>>

\* mutant: the Bool test is made on the base type, after the parameters are stripped
map_mysql_type_to_clickhouse_bool_after_strip(mysql_type) ==
    LET base_type == strip(split(upper(mysql_type), "(")[1])
    IN  IF base_type = <<"TINYINT">> /\ "(" \in Range(mysql_type)
        THEN <<"Bool">>
        ELSE IF base_type = <<"DECIMAL">> /\ "(" \in Range(mysql_type)
        THEN <<"Decimal", "(">>
             \o PySlice(mysql_type, PyFind(mysql_type, "(") + 1, PyFind(mysql_type, ")"))
             \o <<")">>
        ELSE IF base_type \in DictKeys(TYPE_MAPPING)
        THEN DictGet(TYPE_MAPPING, base_type)
        ELSE <<"String">>

\* mutant: the blanks of the parameter list of DECIMAL are dropped
map_mysql_type_to_clickhouse_decimal_without_blanks(mysql_type) ==
    LET base_type == strip(split(upper(mysql_type), "(")[1])
    IN  IF startswith(upper(mysql_type), <<"TINYINT", "(", "1", ")">>)
        THEN <<"Bool">>
        ELSE IF base_type = <<"DECIMAL">> /\ "(" \in Range(mysql_type)
        THEN <<"Decimal", "(">>
             \o SelectSeq(PySlice(mysql_type, PyFind(mysql_type, "(") + 1,
                                  PyFind(mysql_type, ")")),
                          LAMBDA tok : tok # " ")
             \o <<")">>
        ELSE IF base_type \in DictKeys(TYPE_MAPPING)
        THEN DictGet(TYPE_MAPPING, base_type)
        ELSE <<"String">>

map_mysql_type_to_clickhouse(mysql_type) ==
    LET base_type == strip(split(upper(mysql_type), "(")[1])
    IN  IF startswith(upper(mysql_type), <<"TINYINT", "(", "1", ")">>)
        THEN <<"Bool">>
        ELSE IF base_type = <<"DECIMAL">> /\ "(" \in Range(mysql_type)
        THEN <<"Decimal", "(">>
             \o PySlice(mysql_type, PyFind(mysql_type, "(") + 1, PyFind(mysql_type, ")"))
             \o <<")">>
        ELSE IF base_type \in DictKeys(TYPE_MAPPING)
        THEN DictGet(TYPE_MAPPING, base_type)
        ELSE <<"String">>


(***************************************************************************)
(* Python values: [py |-> type name, <type name> |-> payload].             *)
(*   int: an integer; bool: a BOOLEAN; str: a sequence of characters;      *)
(*   float: <<m, e>> for m / 10^e, e minimal, or inf; date: <<Y, m, d>>;   *)
(*   datetime: <<Y, m, d, H, M, S, microsecond>>; Decimal: <<m, e>> for    *)
(*   the decimal of digits m with e digits after the point (what pymysql   *)
(*   delivers for DECIMAL); bytes: a sequence of characters below 256      *)
(*   (what pymysql delivers for BLOB and BINARY).                          *)
(* A character is a one-character string, or the name of a character that  *)
(* has no TLA+ spelling ("NUL", "BEL", "ESC", "DEL", "SURROGATE").         *)
(***************************************************************************)
None == [py |-> "NoneType"]
PyInt(n) == [py |-> "int", int |-> n]
PyBool(b) == [py |-> "bool", bool |-> b]
PyStr(s) == [py |-> "str", str |-> s]
PyDate(y, m, d) == [py |-> "date", date |-> <<y, m, d>>]
PyDatetime(y, m, d, H, M, S, us) ==
    [py |-> "datetime", datetime |-> <<y, m, d, H, M, S, us>>]

PyDecimal(m, e) == [py |-> "Decimal", Decimal |-> <<m, e>>]
PyBytes(s) == [py |-> "bytes", bytes |-> s]
\* float('inf')
PyFloatInf == [py |-> "float", inf |-> TRUE]
IsInf(value) == value.py = "float" /\ "inf" \in DOMAIN value

\* an exception that leaves a block: the outcome of an expression that raises
Raises(exc) == [py |-> "raise", raise |-> exc]
IsRaise(outcome) == outcome.py = "raise"

RECURSIVE Pow10(_)
Pow10(e) == IF e = 0 THEN 1 ELSE 10 * Pow10(e - 1)

\* the float m / 10^e, in lowest terms of e
RECURSIVE PyFloat(_, _)
PyFloat(m, e) ==
    IF e > 0 /\ m % 10 = 0 THEN PyFloat(m \div 10, e - 1)
    ELSE [py |-> "float", float |-> <<m, e>>]

\* ord(c)
Ord(c) ==
    CASE c = "NUL" -> 0
      [] c = "BEL" -> 7
      [] c = "\t" -> 9
      [] c = "\n" -> 10
      [] c = "\r" -> 13
      [] c = "ESC" -> 27
      [] c = "DEL" -> 127
      [] c = "SURROGATE" -> 55296
      [] OTHER -> 65

Digits == <<"0", "1", "2", "3", "4", "5", "6", "7", "8", "9">>

IsDigit(c) == c \in Range(Digits)

DigitVal(c) == (CHOOSE i \in DOMAIN Digits : Digits[i] = c) - 1

\* the number a non-empty run of digits spells
RECURSIVE DigitsVal(_)
DigitsVal(s) ==
    IF s = <<>> THEN 0 ELSE 10 * DigitsVal(SubSeq(s, 1, Len(s) - 1)) + DigitVal(s[Len(s)])

AllDigits(s) == \A i \in DOMAIN s : IsDigit(s[i])

\* str(n) for a natural number n, and for an integer
RECURSIVE NatStr(_)
NatStr(n) == IF n < 10 THEN <<Digits[n + 1]>> ELSE NatStr(n \div 10) \o <<Digits[(n % 10) + 1]>>

IntStr(n) == IF n < 0 THEN <<"-">> \o NatStr(-n) ELSE NatStr(n)

\* n as w digits, zero-padded on the left
Pad(n, w) ==
    LET d == NatStr(n) IN [i \in 1..(w - Len(d)) |-> "0"] \o d

(***************************************************************************)
(* float(s) for a string s: whitespace, sign, digits with at most one      *)
(* point, or inf.  (Exponents, underscores and "nan" are outside the       *)
(* character sets the model draws strings from.)                           *)
(***************************************************************************)
PyWhitespace == {" ", "\t", "\n", "\r"}

RECURSIVE lstrip_ws(_)
lstrip_ws(s) == IF s # <<>> /\ Head(s) \in PyWhitespace THEN lstrip_ws(Tail(s)) ELSE s

RECURSIVE rstrip_ws(_)
rstrip_ws(s) ==
    IF s # <<>> /\ s[Len(s)] \in PyWhitespace
    THEN rstrip_ws(SubSeq(s, 1, Len(s) - 1)) ELSE s

\* str.strip() of a string of characters
strip_ws(s) == lstrip_ws(rstrip_ws(s))

\* [ok |-> the string spells a number, value |-> that float]
float_of_str(s) ==
    LET t == strip_ws(s)
        neg == t # <<>> /\ Head(t) = "-"
        body == IF t # <<>> /\ Head(t) \in {"+", "-"} THEN Tail(t) ELSE t
        parts == split(body, ".")
        whole == parts[1]
        frac == IF Len(parts) = 2 THEN parts[2] ELSE <<>>
        ok == /\ Len(parts) <= 2
              /\ AllDigits(whole) /\ AllDigits(frac)
              /\ Len(whole) + Len(frac) > 0
        m == DigitsVal(whole) * Pow10(Len(frac)) + DigitsVal(frac)
    IN  IF t = <<"i", "n", "f">> THEN [ok |-> TRUE, value |-> PyFloatInf]
        ELSE IF ok THEN [ok |-> TRUE, value |-> PyFloat(IF neg THEN -m ELSE m, Len(frac))]
        ELSE [ok |-> FALSE, value |-> None]

\* int(x) of a float: truncation towards zero
int_of_float(f) ==
    LET m == f.float[1]
        p == Pow10(f.float[2])
    IN  IF m >= 0 THEN m \div p ELSE -((-m) \div p)

\* int(value) and float(value) for isinstance(value, (int, float)); int(inf)
\* raises OverflowError
int_of_number(value) ==
    CASE value.py = "int" -> PyInt(value.int)
      [] value.py = "bool" -> PyInt(IF value.bool THEN 1 ELSE 0)
      [] value.py = "float" ->
            IF IsInf(value) THEN Raises("OverflowError") ELSE PyInt(int_of_float(value))

float_of_number(value) ==
    CASE value.py = "int" -> PyFloat(value.int, 0)
      [] value.py = "bool" -> PyFloat(IF value.bool THEN 1 ELSE 0, 0)
      [] value.py = "float" -> value

(***************************************************************************)
(* datetime.strptime(value, fmt).  A format is a sequence of directives    *)
(* and literal characters; each directive matches the character runs of    *)
(* its regular expression in _strptime, a blank of the format matches one  *)
(* or more whitespace characters, and the whole string must be consumed.   *)
(***************************************************************************)
FMT_DATETIME ==
    <<"%Y", "-", "%m", "-", "%d", " ", "%H", ":", "%M", ":", "%S">>

FMT_DATETIME_F == FMT_DATETIME \o <<".", "%f">>

FMT_DATE == <<"%Y", "-", "%m", "-", "%d">>

\* whether the run of characters t matches the directive, and its value
DirectiveOk(item, t) ==
    LET digits == IF item = "%d" /\ Len(t) = 2 /\ t[1] = " " THEN Tail(t) ELSE t
        n == DigitsVal(digits)
    IN  /\ digits # <<>>
        /\ AllDigits(digits)
        /\ CASE item = "%Y" -> Len(t) = 4
             [] item = "%m" -> Len(t) <= 2 /\ n \in 1..12
             [] item = "%d" -> Len(t) <= 2 /\ n \in 1..31
             [] item = "%H" -> Len(t) <= 2 /\ n \in 0..23
             [] item = "%M" -> Len(t) <= 2 /\ n \in 0..59
             [] item = "%S" -> Len(t) <= 2 /\ n \in 0..61
             [] item = "%f" -> Len(t) <= 6

DirectiveVal(item, t) ==
    LET digits == IF t[1] = " " THEN Tail(t) ELSE t
    IN  IF item = "%f" THEN DigitsVal(digits) * Pow10(6 - Len(digits))
        ELSE DigitsVal(digits)

\* the lengths n for which the first n characters of s match the item
MatchLengths(item, s) ==
    IF item \in {"%Y", "%m", "%d", "%H", "%M", "%S", "%f"}
    THEN {n \in 1..Min(Len(s), 6) : DirectiveOk(item, SubSeq(s, 1, n))}
    ELSE IF item = " "
    THEN {n \in 1..Len(s) : \A i \in 1..n : s[i] \in PyWhitespace}
    ELSE {n \in 1..Min(Len(s), 1) : s[1] = item}

\* every way of matching all of s against fmt: the values of the directives
RECURSIVE strptime_matches(_, _)
strptime_matches(s, fmt) ==
    IF fmt = <<>> THEN (IF s = <<>> THEN {<<>>} ELSE {})
    ELSE UNION {
           { (IF Head(fmt) \in {"%Y", "%m", "%d", "%H", "%M", "%S", "%f"}
              THEN <<DirectiveVal(Head(fmt), SubSeq(s, 1, n))>> ELSE <<>>) \o rest :
               rest \in strptime_matches(SubSeq(s, n + 1, Len(s)), Tail(fmt)) } :
           n \in MatchLengths(Head(fmt), s) }

IsLeap(y) == (y % 4 = 0 /\ y % 100 # 0) \/ y % 400 = 0

DaysInMonth(y, m) ==
    IF m = 2 THEN (IF IsLeap(y) THEN 29 ELSE 28)
    ELSE IF m \in {4, 6, 9, 11} THEN 30 ELSE 31

\* [ok |-> no ValueError, value |-> the datetime parsed]
strptime(s, fmt) ==
    LET ms == strptime_matches(s, fmt)
        f == CHOOSE x \in ms : TRUE
        g == [i \in 1..7 |-> IF i <= Len(f) THEN f[i] ELSE 0]
        ok == /\ ms # {}
              /\ g[1] >= 1
              /\ g[3] <= DaysInMonth(g[1], g[2])
              /\ g[6] <= 59
    IN  IF ok THEN [ok |-> TRUE, value |-> PyDatetime(g[1], g[2], g[3], g[4], g[5], g[6], g[7])]
        ELSE [ok |-> FALSE, value |-> None]

\* datetime.date()
date_of(dt) == PyDate(dt.datetime[1], dt.datetime[2], dt.datetime[3])

(***************************************************************************)
(* str(value) for a value that is not a string.                            *)
(***************************************************************************)
str_of_date(v) == Pad(v[1], 4) \o <<"-">> \o Pad(v[2], 2) \o <<"-">> \o Pad(v[3], 2)

\* str(Decimal): every digit after the point is kept
str_of_decimal(v) ==
    LET m == IF v[1] < 0 THEN -v[1] ELSE v[1]
        p == Pow10(v[2])
    IN  (IF v[1] < 0 THEN <<"-">> ELSE <<>>) \o NatStr(m \div p)
        \o (IF v[2] = 0 THEN <<>> ELSE <<".">> \o Pad(m % p, v[2]))

HexDigits == <<"0", "1", "2", "3", "4", "5", "6", "7", "8", "9", "a", "b", "c", "d", "e", "f">>

\* str(bytes) is repr(bytes): b'...' with every byte outside the printable
\* ASCII range escaped
byte_escaped(c) ==
    CASE c = "\t" -> <<"\\", "t">>
      [] c = "\n" -> <<"\\", "n">>
      [] c = "\r" -> <<"\\", "r">>
      [] c \notin {"\t", "\n", "\r"} /\ (Ord(c) < 32 \/ Ord(c) >= 127) ->
           <<"\\", "x", HexDigits[(Ord(c) \div 16) + 1], HexDigits[(Ord(c) % 16) + 1]>>
      [] OTHER -> <<c>>

RECURSIVE bytes_escaped(_)
bytes_escaped(s) ==
    IF s = <<>> THEN <<>>
    ELSE IF Len(s) = 1 THEN byte_escaped(s[1])
    ELSE LET half == Len(s) \div 2
         IN  bytes_escaped(SubSeq(s, 1, half)) \o bytes_escaped(SubSeq(s, half + 1, Len(s)))

str_of_bytes(s) == <<"b", "'">> \o bytes_escaped(s) \o <<"'">>

str_of_float(v) ==
    LET m == IF v[1] < 0 THEN -v[1] ELSE v[1]
        p == Pow10(v[2])
    IN  (IF v[1] < 0 THEN <<"-">> ELSE <<>>) \o NatStr(m \div p) \o <<".">>
        \o (IF v[2] = 0 THEN <<"0">> ELSE Pad(m % p, v[2]))

str_of(value) ==
    CASE value.py = "int" -> IntStr(value.int)
      [] value.py = "bool" -> (IF value.bool THEN <<"T", "r", "u", "e">>
                               ELSE <<"F", "a", "l", "s", "e">>)
      [] value.py = "float" ->
            (IF IsInf(value) THEN <<"i", "n", "f">> ELSE str_of_float(value.float))
      [] value.py = "Decimal" -> str_of_decimal(value.Decimal)
      [] value.py = "bytes" -> str_of_bytes(value.bytes)
      [] value.py = "date" -> str_of_date(value.date)
      [] value.py = "datetime" ->
            LET dt == value.datetime
            IN  str_of_date(dt) \o <<" ">> \o Pad(dt[4], 2) \o <<":">>
                \o Pad(dt[5], 2) \o <<":">> \o Pad(dt[6], 2)
                \o (IF dt[7] = 0 THEN <<>> ELSE <<".">> \o Pad(dt[7], 6))

(***************************************************************************)
(* ClickHouseClientV3: value conversion                                    *)
(***************************************************************************)
\* the probes 'x in field_type_lower' that hold of one lower-case token
Infixes(tok) ==
    CASE tok \in {"int8", "int16", "int32", "int64"} -> {"int"}
      [] tok \in {"uint8", "uint16", "uint32", "uint64"} -> {"int", "uint"}
      [] tok \in {"float32", "float64"} -> {"float"}
      [] tok = "decimal" -> {"decimal"}
      [] tok = "datetime64" -> {"datetime"}
      [] OTHER -> {}

\* probe in field_type_lower
Occurs(probe, field_type_lower) ==
    \E i \in DOMAIN field_type_lower : probe \in Infixes(field_type_lower[i])

_get_default_value_for_type(field_type) ==
    LET field_type_lower == lower(field_type)
    IN  IF \E num_type \in {"int", "uint"} : Occurs(num_type, field_type_lower)
        THEN PyInt(0)
        ELSE IF \E float_type \in {"float", "double"} : Occurs(float_type, field_type_lower)
        THEN PyFloat(0, 0)
        ELSE IF Occurs("decimal", field_type_lower) THEN PyInt(0)
        ELSE IF field_type_lower = <<"date32">> THEN PyDate(2000, 1, 1)
        ELSE IF Occurs("datetime", field_type_lower) THEN PyDatetime(2000, 1, 1, 0, 0, 0, 0)
        ELSE IF field_type_lower = <<"bool">> THEN PyBool(FALSE)
        ELSE PyStr(<<>>)

\* length to which _clean_string_value cuts a string
CLEAN_MAX_LEN == 1000

\* the ordinals of the characters that step 2 replaces by ''
REPLACED_ORDS == (0..8) \cup {11, 12} \cup (14..31)

_clean_string_value(value) ==
    IF value = <<>> THEN <<>>
    ELSE LET kept == SelectSeq(value, LAMBDA c : Ord(c) >= 32 \/ c \in {"\t", "\n", "\r"})
             cleaned == SelectSeq(kept, LAMBDA c : Ord(c) \notin REPLACED_ORDS)
         IN  IF \E i \in DOMAIN cleaned : cleaned[i] = "SURROGATE"
             THEN <<>>   \* cleaned.encode('utf-8') raises: the except branch
             ELSE IF Len(cleaned) > CLEAN_MAX_LEN THEN SubSeq(cleaned, 1, CLEAN_MAX_LEN)
             ELSE cleaned

\* str.lower() of a string of characters
lower_chars(s) ==
    [i \in DOMAIN s |->
        CASE s[i] = "T" -> "t" [] s[i] = "R" -> "r" [] s[i] = "U" -> "u"
          [] s[i] = "E" -> "e" [] s[i] = "Y" -> "y" [] s[i] = "S" -> "s"
          [] s[i] = "O" -> "o" [] s[i] = "N" -> "n" [] OTHER -> s[i]]

\* the first format of fmts that parses s, or the sentinel when none does
RECURSIVE first_strptime(_, _, _)
first_strptime(s, fmts, sentinel) ==
    IF fmts = <<>> THEN sentinel
    ELSE IF strptime(s, Head(fmts)).ok THEN strptime(s, Head(fmts)).value
    ELSE first_strptime(s, Tail(fmts), sentinel)

\* lines 407-501: the try block; its outcome is the value returned or the
\* exception that leaves it
convert_value_try(value, field_type) ==
    LET field_type_lower == lower(field_type)
    IN  IF Occurs("datetime", field_type_lower) \/ Occurs("timestamp", field_type_lower)
        THEN IF value.py \in {"date", "datetime"}            \* hasattr(value, 'strftime')
             THEN value
             ELSE IF value.py = "str"
             THEN first_strptime(value.str, <<FMT_DATETIME, FMT_DATETIME_F, FMT_DATE>>,
                                 PyDatetime(2000, 1, 1, 0, 0, 0, 0))
             ELSE PyDatetime(2000, 1, 1, 0, 0, 0, 0)
        ELSE IF field_type_lower = <<"date32">>
        THEN IF value.py = "datetime"                        \* hasattr(value, 'date')
             THEN date_of(value)
             ELSE IF value.py = "str"
             THEN LET dt == first_strptime(value.str, <<FMT_DATE, FMT_DATETIME>>, None)
                  IN  IF dt = None THEN PyDate(2000, 1, 1) ELSE date_of(dt)
             ELSE PyDate(2000, 1, 1)
        ELSE IF \E num_type \in {"int", "uint"} : Occurs(num_type, field_type_lower)
        THEN IF value.py \in {"int", "bool", "float"}        \* isinstance(value, (int, float))
             THEN int_of_number(value)
             ELSE IF value.py = "str" /\ strip_ws(value.str) # <<>>
             THEN IF float_of_str(value.str).ok
                  THEN int_of_number(float_of_str(value.str).value)
                  ELSE PyInt(0)                              \* except (ValueError, TypeError)
             ELSE PyInt(0)
        ELSE IF \E float_type \in {"float", "double", "decimal"} :
                    Occurs(float_type, field_type_lower)
        THEN IF value.py \in {"int", "bool", "float"}
             THEN float_of_number(value)
             ELSE IF value.py = "str" /\ strip_ws(value.str) # <<>>
             THEN IF float_of_str(value.str).ok THEN float_of_str(value.str).value
                  ELSE PyFloat(0, 0)
             ELSE PyFloat(0, 0)
        ELSE IF field_type_lower = <<"bool">>
        THEN IF value.py = "bool" THEN value
             ELSE IF value.py \in {"int", "float"}
             THEN PyBool(IF value.py = "int" THEN value.int # 0
                         ELSE IsInf(value) \/ value.float[1] # 0)
             ELSE IF value.py = "str"
             THEN PyBool(lower_chars(value.str) \in
                            {<<"t", "r", "u", "e">>, <<"1">>, <<"y", "e", "s">>, <<"o", "n">>})
             ELSE PyBool(FALSE)
        ELSE IF value.py = "str" THEN PyStr(_clean_string_value(value.str))
        ELSE PyStr(str_of(value))

\* mutant: without the outer except, an exception of the try block leaves the method
_convert_value_for_clickhouse_uncaught(value, field_type) ==
    IF value = None THEN _get_default_value_for_type(field_type)
    ELSE convert_value_try(value, field_type)

\* lines 503-505: an exception of the try block is caught and the default of
\* the type returned
except_Exception(outcome, field_type) ==
    IF IsRaise(outcome) THEN _get_default_value_for_type(field_type) ELSE outcome

\* lines 402-505: the value returned
_convert_value_for_clickhouse(value, field_type) ==
    IF value = None THEN _get_default_value_for_type(field_type)
    ELSE except_Exception(convert_value_try(value, field_type), field_type)

\* line 538: the line _clean_string_value prints when the string cannot be
\* encoded
clean_string_prints(value) ==
    IF \E i \in DOMAIN value : value[i] = "SURROGATE"
    THEN <<[line |-> "clean failed", value |-> PyStr(value), error |-> "UnicodeEncodeError"]>>
    ELSE <<>>

\* lines 493-499: the branch of the string types is the last one
takes_string_branch(field_type) ==
    LET field_type_lower == lower(field_type)
    IN  /\ \A probe \in {"datetime", "timestamp", "int", "uint", "float", "double", "decimal"} :
              ~Occurs(probe, field_type_lower)
        /\ field_type_lower \notin {<<"date32">>, <<"bool">>}

\* line 504, the only print of _convert_value_for_clickhouse: the field, the
\* value, the type and the error, when an exception leaves the try block
except_Exception_prints(outcome, value, field_type, field_name) ==
    IF IsRaise(outcome)
    THEN <<[line |-> "conversion failed", field_name |-> field_name, value |-> value,
            field_type |-> field_type, error |-> outcome.raise]>>
    ELSE <<>>

\* the lines a call of _convert_value_for_clickhouse prints
convert_value_prints(value, field_type, field_name) ==
    IF value = None THEN <<>>
    ELSE (IF value.py = "str" /\ takes_string_branch(field_type)
          THEN clean_string_prints(value.str) ELSE <<>>)
         \o except_Exception_prints(convert_value_try(value, field_type), value, field_type,
                                    field_name)

\* insert_batch, lines 305-316: the lines printed for one cell of row i of the
\* batch: those of the conversion, and for the first row the value converted
process_cell_prints(i, value, field_type, field_name) ==
    IF value = None THEN <<>>
    ELSE convert_value_prints(value, field_type, field_name)
         \o (IF i < 1
             THEN <<[line |-> "converted", field_name |-> field_name, value |-> value,
                     converted |-> _convert_value_for_clickhouse(value, field_type),
                     field_type |-> field_type]>>
             ELSE <<>>)

\* insert_batch, lines 296-323: the processed row of one row of the batch
process_row(row, field_types) ==
    [j \in DOMAIN row |->
        LET field_type == IF j <= Len(field_types) THEN field_types[j] ELSE <<"String">>
        IN  IF row[j] = None THEN _get_default_value_for_type(field_type)
            ELSE _convert_value_for_clickhouse(row[j], field_type)]

(***************************************************************************)
(* The source database (read-only during a run).                           *)
(*   structure: what information_schema.COLUMNS returns, in ORDINAL_POSITION*)
(*   order: <<COLUMN_NAME, DATA_TYPE, COLUMN_COMMENT>>; rows: SELECT *.    *)
(***************************************************************************)
T(word) == <<word>>

Chars2(a, b) == PyStr(<<a, b>>)

\* information_schema.COLUMNS.DATA_TYPE: the name of the type alone, where
\* COLUMN_TYPE is the type as declared (decimal for decimal(10,2), tinyint for
\* tinyint(1), int for int(11) unsigned)
DATA_TYPE(column_type) == <<column_type[1]>>

\* SELECT COLUMN_NAME, DATA_TYPE, COLUMN_COMMENT of the columns declared
COLUMNS(columns) ==
    [i \in DOMAIN columns |-> <<columns[i][1], DATA_TYPE(columns[i][2]), columns[i][3]>>]

\* a source table: its columns <<COLUMN_NAME, COLUMN_TYPE, COLUMN_COMMENT>> as
\* declared, what get_table_structure reads of them, and its rows
Table(comment, columns, rows) ==
    [comment |-> comment, columns |-> columns, structure |-> COLUMNS(columns), rows |-> rows]

MySQLTables ==
    [t \in {T("users"), T("big"), T("empty"), T("prices")} |->
        CASE t = T("users") ->
               Table(T("accounts"),
                     << <<T("id"), <<"int", "(", "11", ")">>, <<>>>>,
                        <<T("name"), <<"varchar", "(", "10", ")">>, T("display")>>,
                        <<T("created"), T("timestamp"), <<>>>> >>,
                     << <<PyInt(1), Chars2("a", "NUL"), PyDatetime(2024, 1, 2, 3, 4, 5, 0)>>,
                        <<PyInt(2), None, PyDatetime(2024, 2, 29, 0, 0, 0, 0)>>,
                        <<PyInt(3), Chars2("3", "b"), None>> >>)
          [] t = T("big") ->
               Table(<<>>, << <<T("k"), <<"bigint", "(", "20", ")">>, <<>>>> >>,
                     [i \in 1..NumBigRows |-> <<PyInt(i)>>])
          [] t = T("empty") ->
               Table(<<>>, << <<T("id"), <<"int", "(", "11", ")">>, <<>>>> >>, <<>>)
          [] t = T("prices") ->
               Table(<<>>,
                     << <<T("sku"), <<"int", "(", "11", ")">>, <<>>>>,
                        <<T("price"), <<"decimal", "(", "10", ",", "2", ")">>, <<>>>>,
                        <<T("active"), <<"tinyint", "(", "1", ")">>, <<>>>> >>,
                     << <<PyInt(1), PyDecimal(1250, 2), PyInt(1)>> >>)]

(***************************************************************************)
(* The files of the mapping directory.                                     *)
(***************************************************************************)
CsvHeader == <<T("mysql"), T("clickhouse")>>

F_users ==
    [name |-> <<"users", "-", "users", ".csv">>, header |-> CsvHeader,
     rows |-> << <<<<" ", "id">>, <<"id", " ">>>>,
                 <<T("name"), T("name")>>,
                 <<T("created"), T("created")>> >>]

F_users_copy ==
    [name |-> <<"users", "-", "users", "-", "copy", ".csv">>, header |-> CsvHeader,
     rows |-> F_users.rows]

\* other order than the source columns, without "name", with a field the table lacks
F_users_v2 ==
    [name |-> <<"users", "-", "users", "-", "v2", ".csv">>, header |-> CsvHeader,
     rows |-> << <<T("created"), T("created_at")>>,
                 <<T("product_code"), T("product_code")>>,
                 <<T("id"), T("uid")>> >>]

F_big ==
    [name |-> <<"big", "-", "big", ".csv">>, header |-> CsvHeader,
     rows |-> << <<T("k"), T("k")>> >>]

F_empty ==
    [name |-> <<"empty", "-", "empty", ".csv">>, header |-> CsvHeader,
     rows |-> << <<T("id"), T("id")>> >>]

\* names a source table that does not exist
F_ghost ==
    [name |-> <<"ghost", "-", "ghost", ".csv">>, header |-> CsvHeader,
     rows |-> << <<T("id"), T("id")>> >>]

\* no '-' in the file name
F_badname ==
    [name |-> <<"users", ".csv">>, header |-> CsvHeader,
     rows |-> << <<T("id"), T("id")>> >>]

\* no 'clickhouse' column
F_nohdr ==
    [name |-> <<"users", "-", "nohdr", ".csv">>, header |-> <<T("mysql"), T("ck")>>,
     rows |-> << <<T("id"), T("id")>> >>]

\* maps no column of the source table
F_none ==
    [name |-> <<"users", "-", "none", ".csv">>, header |-> CsvHeader,
     rows |-> << <<T("product_code"), T("code")>> >>]

\* maps no column of the source table, onto the target table "users"
F_unmapped ==
    [name |-> <<"users", "-", "users", "-", "none", ".csv">>, header |-> CsvHeader,
     rows |-> << <<T("product_code"), T("code")>> >>]

F_prices ==
    [name |-> <<"prices", "-", "prices", ".csv">>, header |-> CsvHeader,
     rows |-> << <<T("sku"), T("sku")>>, <<T("price"), T("price")>>,
                 <<T("active"), T("active")>> >>]

F_notes == [name |-> <<"notes", ".txt">>, header |-> <<>>, rows |-> <<>>]

\* the directory listings os.listdir may return
Directories ==
    { <<>>, <<F_notes>>,
      <<F_users, F_users_copy>>, <<F_users, F_users_v2>>, <<F_users_v2, F_notes, F_users>>,
      <<F_big, F_users>>, <<F_big>>,
      <<F_empty, F_ghost, F_users>>,
      <<F_badname, F_users>>, <<F_nohdr, F_big>>,
      <<F_none, F_users>>, <<F_users, F_none>>, <<F_none, F_users_v2>>, <<F_unmapped>>,
      <<F_prices>> }

(***************************************************************************)
(* CSVMappingLoader                                                        *)
(***************************************************************************)
\* raise Exception(f"...: {e}") around the error e: the chain of messages
Wrap(msg, e) == <<msg>> \o e

\* csv.DictReader row: the cell under a field name (the last such column wins)
HasColumn(header, field) == \E i \in DOMAIN header : header[i] = field

Cell(header, row, field) ==
    LET i == CHOOSE k \in DOMAIN header :
                 header[k] = field /\ \A j \in DOMAIN header : header[j] = field => j <= k
    IN  IF i <= Len(row) THEN [ok |-> TRUE, text |-> row[i]] ELSE [ok |-> FALSE, text |-> <<>>]

\* lines 212-216: the dict built from the rows read so far, or the error raised
RECURSIVE read_field_mappings(_, _, _)
read_field_mappings(header, rows, field_mappings) ==
    IF rows = <<>> THEN [ok |-> TRUE, value |-> field_mappings]
    ELSE IF ~HasColumn(header, T("mysql")) THEN [ok |-> FALSE, error |-> <<"KeyError: 'mysql'">>]
    ELSE IF ~Cell(header, Head(rows), T("mysql")).ok
    THEN [ok |-> FALSE, error |-> <<"AttributeError: strip">>]
    ELSE IF ~HasColumn(header, T("clickhouse"))
    THEN [ok |-> FALSE, error |-> <<"KeyError: 'clickhouse'">>]
    ELSE IF ~Cell(header, Head(rows), T("clickhouse")).ok
    THEN [ok |-> FALSE, error |-> <<"AttributeError: strip">>]
    ELSE LET mysql_field == strip(Cell(header, Head(rows), T("mysql")).text)
             clickhouse_field == strip(Cell(header, Head(rows), T("clickhouse")).text)
         IN  read_field_mappings(header, Tail(rows),
                 DictSet(field_mappings, mysql_field, <<clickhouse_field, <<"String">>>>))

load_csv_mapping(csv_file) ==
    LET filename == csv_file.name
        parts == split(remove(filename, ".csv"), "-")
        read == read_field_mappings(csv_file.header, csv_file.rows, <<>>)
    IN  IF "-" \notin Range(filename)
        THEN [ok |-> FALSE, error |-> Wrap("load_csv_mapping failed", <<"ValueError: file name">>)]
        ELSE IF ~read.ok
        THEN [ok |-> FALSE, error |-> Wrap("load_csv_mapping failed", read.error)]
        ELSE [ok |-> TRUE,
              value |-> [mysql_table |-> parts[1], clickhouse_table |-> parts[2],
                         field_mappings |-> read.value]]

(***************************************************************************)
(* The target database: table name -> NoTable, or the table's columns      *)
(* <<name, type, comment>>, its ordering key and its rows, each row a      *)
(* function from the column names to values.                               *)
(***************************************************************************)
NoTable == [exists |-> FALSE]

CHTableNames ==
    {T("users"), T("big"), T("empty"), T("ghost"), T("nohdr"), T("none"), T("prices")}

ColumnNames(fields) == {fields[i][1] : i \in DOMAIN fields}

Distinct(seq) == \A i, j \in DOMAIN seq : seq[i] = seq[j] => i = j

IndexOf(seq, x) == CHOOSE i \in DOMAIN seq : seq[i] = x

\* EXISTS TABLE
ch_exists(db, table_name) == table_name \in DOMAIN db /\ db[table_name].exists

\* ClickHouseClientV3.get_table_row_count: SELECT COUNT(*), or 0 when the query
\* fails (the table is missing, or the server does not answer)
ch_get_table_row_count(db, table_name, query_ok) ==
    IF query_ok /\ ch_exists(db, table_name) THEN Len(db[table_name].rows) ELSE 0

\* ClickHouseClientV3.table_exists: EXISTS TABLE, or False when the query fails
table_exists(db, table_name, query_ok) == query_ok /\ ch_exists(db, table_name)

\* DROP TABLE IF EXISTS
ch_drop(db, table_name) ==
    IF table_name \in DOMAIN db THEN [db EXCEPT ![table_name] = NoTable] ELSE db

\* mutant: CREATE TABLE is accepted for a table that exists, too
ch_create_accepts_existing(db, table_name, fields) ==
    /\ table_name \in DOMAIN db
    /\ fields # <<>>
    /\ \A i, j \in DOMAIN fields : fields[i][1] = fields[j][1] => i = j

\* CREATE TABLE is accepted for a new table with distinct column names
ch_create_accepts(db, table_name, fields) ==
    /\ table_name \in DOMAIN db
    /\ ~db[table_name].exists
    /\ fields # <<>>
    /\ Distinct([i \in DOMAIN fields |-> fields[i][1]])

ch_create(db, table_name, fields, order_by, table_comment) ==
    [db EXCEPT ![table_name] =
        [exists |-> TRUE, fields |-> fields, order_by |-> order_by,
         comment |-> table_comment, rows |-> <<>>]]

\* INSERT INTO t (names) VALUES rows is accepted when t has the named columns
\* and every row has one value per name
ch_insert_accepts(db, table_name, field_names, rows) ==
    /\ ch_exists(db, table_name)
    /\ Distinct(field_names)
    /\ Range(field_names) \subseteq ColumnNames(db[table_name].fields)
    /\ \A i \in DOMAIN rows : Len(rows[i]) = Len(field_names)

\* the rows as the table stores them: a column that is not named gets its default
StoredRow(fields, field_names, row) ==
    [c \in ColumnNames(fields) |->
        IF c \in Range(field_names) THEN row[IndexOf(field_names, c)]
        ELSE _get_default_value_for_type(
                 fields[CHOOSE i \in DOMAIN fields : fields[i][1] = c][2])]

ch_insert(db, table_name, field_names, rows) ==
    [db EXCEPT ![table_name].rows =
        @ \o [i \in DOMAIN rows |-> StoredRow(db[table_name].fields, field_names, rows[i])]]

(***************************************************************************)
(* MySQLClient                                                             *)
(***************************************************************************)
\* SELECT COUNT(*) FROM table: fails for a missing table
mysql_has(table_name) == table_name \in DOMAIN MySQLTables

\* get_table_row_count: the count, or 0 when the query fails
get_table_row_count(table_name, query_ok) ==
    IF query_ok /\ mysql_has(table_name) THEN Len(MySQLTables[table_name].rows) ELSE 0

\* get_table_structure: information_schema has no row for a missing table
get_table_structure(table_name) ==
    IF mysql_has(table_name) THEN MySQLTables[table_name].structure ELSE <<>>

\* get_table_comment: '' when the query fails
get_table_comment(table_name, query_ok) ==
    IF query_ok /\ mysql_has(table_name) THEN MySQLTables[table_name].comment ELSE <<>>

\* mutant: one row less than asked for
fetchmany_short(rows, rownumber, size) ==
    SubSeq(rows, rownumber + 1, Min(rownumber + size - 1, Len(rows)))

\* cursor.fetchmany(batch_size) with rownumber rows already fetched
fetchmany(rows, rownumber, size) ==
    SubSeq(rows, rownumber + 1, Min(rownumber + size, Len(rows)))

(***************************************************************************)
(* DataMigrator                                                            *)
(***************************************************************************)
SOURCE_ABSENT_OR_EMPTY == <<"MySQL table absent or empty">>

\* the MigrationResult of a failed migration
Failed(mapping, e) ==
    [table_mapping |-> mapping, success |-> FALSE, mysql_rows |-> 0,
     clickhouse_rows |-> 0, error_message |-> e]

Succeeded(mapping, mysql_rows, clickhouse_rows) ==
    [table_mapping |-> mapping, success |-> TRUE, mysql_rows |-> mysql_rows,
     clickhouse_rows |-> clickhouse_rows, error_message |-> <<>>]

\* f.endswith('.csv')
endswith_csv(file) == file.name # <<>> /\ file.name[Len(file.name)] = ".csv"

\* mutant: the early return is taken for a negative count only
source_absent_or_empty_negative(row_count) == row_count < 0

\* line 626
source_absent_or_empty(row_count) == row_count = 0

\* mutant: auto_recreate_table is looked at before skip_existing_tables
existing_table_policy_recreate_first(skip, recreate) ==
    IF recreate THEN "drop" ELSE IF skip THEN "skip" ELSE "keep"

\* mutant: a target table that exists is never dropped
existing_table_policy_never_drop(skip, recreate) == IF skip THEN "skip" ELSE "keep"

\* mutant: a target table that exists is dropped unless it is skipped
existing_table_policy_drop_by_default(skip, recreate) == IF skip THEN "skip" ELSE "drop"

\* lines 638-649: what is done with a target table that exists
existing_table_policy(skip, recreate) ==
    IF skip THEN "skip" ELSE IF recreate THEN "drop" ELSE "keep"

\* mutant: every field of the mapping file becomes a target column, in the
\* order of the file
build_fields_of_mapping_file(structure, field_mappings, acc) ==
    [clickhouse_fields |->
         [i \in DOMAIN field_mappings |-> <<field_mappings[i][2][1], <<"String">>, <<>>>>],
     final_field_mappings |->
         [i \in DOMAIN field_mappings |->
             <<field_mappings[i][1], <<field_mappings[i][2][1], <<"String">>>>>>]]

\* lines 656-665: the target columns and the final mapping, in source column order
RECURSIVE build_fields(_, _, _)
build_fields(structure, field_mappings, acc) ==
    IF structure = <<>> THEN acc
    ELSE LET mysql_field == Head(structure)[1]
             mysql_type == Head(structure)[2]
             mysql_comment == Head(structure)[3]
         IN  IF mysql_field \in DictKeys(field_mappings)
             THEN LET clickhouse_field == DictGet(field_mappings, mysql_field)[1]
                      clickhouse_type == map_mysql_type_to_clickhouse(mysql_type)
                  IN  build_fields(Tail(structure), field_mappings,
                          [clickhouse_fields |->
                               Append(acc.clickhouse_fields,
                                      <<clickhouse_field, clickhouse_type, mysql_comment>>),
                           final_field_mappings |->
                               DictSet(acc.final_field_mappings, mysql_field,
                                       <<clickhouse_field, clickhouse_type>>)])
             ELSE build_fields(Tail(structure), field_mappings, acc)

\* mutant: the last field
primary_key_field_last(fields) == fields[Len(fields)][1]

\* create_table, lines 253-263: the first field
primary_key_field(fields) == fields[1][1]

\* mutant: every cell of the source row
mapped_row_unfiltered(row, structure, final_mappings) == row

\* lines 696-699: the cells of the mapped source columns
mapped_row(row, structure, final_mappings) ==
    LET kept == SelectSeq([i \in DOMAIN structure |-> i],
                          LAMBDA i : structure[i][1] \in DictKeys(final_mappings))
    IN  [j \in DOMAIN kept |-> row[kept[j]]]

\* lines 715-716
mapped_fields(structure, final_mappings) ==
    SelectSeq([i \in DOMAIN structure |-> structure[i][1]],
              LAMBDA f : f \in DictKeys(final_mappings))

clickhouse_field_names(structure, final_mappings) ==
    LET fs == mapped_fields(structure, final_mappings)
    IN  [j \in DOMAIN fs |-> DictGet(final_mappings, fs[j])[1]]

clickhouse_field_types(structure, final_mappings) ==
    LET fs == mapped_fields(structure, final_mappings)
    IN  [j \in DOMAIN fs |-> DictGet(final_mappings, fs[j])[2]]

\* insert_batch, line 348: the rows retried one at a time
DIAGNOSTIC_ROWS == 5

\* mutant: every row of the batch is retried
diagnostic_rows_all(processed_data) == processed_data

diagnostic_rows(processed_data) ==
    SubSeq(processed_data, 1, Min(DIAGNOSTIC_ROWS, Len(processed_data)))

\* mutant: unequal row counts make the result a failure
verified_result_strict(mapping, mysql_rows, clickhouse_rows) ==
    IF mysql_rows = clickhouse_rows THEN Succeeded(mapping, mysql_rows, clickhouse_rows)
    ELSE Failed(mapping, <<"row counts differ">>)

\* lines 732-738
verified_result(mapping, mysql_rows, clickhouse_rows) ==
    Succeeded(mapping, mysql_rows, clickhouse_rows)

\* migrate_table, lines 743-751: the except branch
except_result(mapping, e) == Failed(mapping, e)

\* mutant: the loop ends with the first failed table
after_table_stop_on_failure(res, idx, files) ==
    IF res.success /\ idx < Len(files) THEN "pending" ELSE "summary"

\* migrate_all_tables, lines 764-767: the loop goes on while files are left
after_table(res, idx, files) == IF idx < Len(files) THEN "pending" ELSE "summary"

(***************************************************************************)
(* State.                                                                  *)
(***************************************************************************)
VARIABLES
    directory,            \* os.listdir(csv_directory)
    batch_size,           \* settings.batch_size
    auto_recreate,        \* settings.auto_recreate_table
    skip_existing,        \* settings.skip_existing_tables
    clickhouse,           \* the target database
    pc,                   \* where main / migrate_all_tables / migrate_table stands
    csv_files,            \* migrate_all_tables: the files to migrate
    file_idx,             \* migrate_all_tables: index of the current file
    results,              \* migrate_all_tables: the results so far
    summary,              \* print_migration_summary: <<total, successes, failures>>
    table_mapping,        \* migrate_table locals
    mysql_row_count,
    mysql_structure,
    table_comment,
    clickhouse_fields,
    final_field_mappings,
    rownumber,            \* get_table_data: rows of the cursor already fetched
    batch_data,
    total_migrated,
    result,               \* what migrate_table returns
    raised,               \* history: the exception migrate_table caught, <<>> if none
    faulted,              \* history: a query of this migrate_table was not answered
    fault_log,            \* history: faulted, for each result of results
    ch_ops,               \* history: statements sent to the target by this migrate_table
    ch_before,            \* history: the target when this migrate_table began
    fetched,              \* history: the batches get_table_data yielded
    submitted,            \* history: the arguments of the insert_batch calls
    arg_value,                \* insert_batch: one cell of a row of the batch
    arg_field_type,           \* insert_batch: the target type of the cell's column
    converted_value,            \* insert_batch: the processed cell
    arg_mysql_type,           \* map_mysql_type_to_clickhouse: its argument
    returned_type,      \* map_mysql_type_to_clickhouse: what it returns
    printed             \* the lines the call of the conversion has printed

config == <<directory, batch_size, auto_recreate, skip_existing>>

run == <<csv_files, file_idx, results, summary>>

locals == <<table_mapping, mysql_row_count, mysql_structure, table_comment,
            clickhouse_fields, final_field_mappings, rownumber, batch_data,
            total_migrated>>

history == <<raised, faulted, fault_log, ch_ops, ch_before, fetched, submitted>>

\* the calls of the value conversion and of the type mapper taken on their own
units == <<arg_value, arg_field_type, converted_value, arg_mysql_type, returned_type,
           printed>>

vars == <<config, clickhouse, pc, run, locals, result, history, units>>

\* a target table left by an earlier, unrelated load
LegacyUsers ==
    [exists |-> TRUE,
     fields |-> << <<T("legacy"), <<"String">>, <<>>>> >>,
     order_by |-> T("legacy"), comment |-> <<>>,
     rows |-> << [c \in {T("legacy")} |-> PyStr(<<"x">>)],
                 [c \in {T("legacy")} |-> PyStr(<<"y">>)] >>]

\* no run of migrate_all_tables has begun
NoRun ==
    /\ csv_files = <<>>
    /\ file_idx = 0
    /\ results = <<>>
    /\ summary = <<0, 0, 0>>
    /\ table_mapping = None
    /\ mysql_row_count = 0
    /\ mysql_structure = <<>>
    /\ table_comment = <<>>
    /\ clickhouse_fields = <<>>
    /\ final_field_mappings = <<>>
    /\ rownumber = 0
    /\ batch_data = <<>>
    /\ total_migrated = 0
    /\ result = None
    /\ raised = <<>>
    /\ faulted = FALSE
    /\ fault_log = <<>>
    /\ ch_ops = <<>>
    /\ ch_before = clickhouse
    /\ fetched = <<>>
    /\ submitted = <<>>

\* no call of the value conversion or of the type mapper on its own
NoUnitCall ==
    /\ arg_value = None
    /\ arg_field_type = <<"String">>
    /\ converted_value = None
    /\ arg_mysql_type = <<>>
    /\ returned_type = <<>>
    /\ printed = <<>>

Init ==
    /\ directory \in Directories
    /\ batch_size \in {2, MaxBatchSize}
    /\ auto_recreate \in BOOLEAN
    /\ skip_existing \in BOOLEAN
    /\ clickhouse \in {[t \in CHTableNames |-> NoTable],
                       [t \in CHTableNames |-> IF t = T("users") THEN LegacyUsers ELSE NoTable]}
    /\ pc = "main"
    /\ NoUnitCall
    /\ NoRun

\* migrate_table returns res
Return(res) ==
    /\ result' = res
    /\ raised' = <<>>
    /\ pc' = "returned"

\* an exception e reaches the except branch of migrate_table
Raise(mapping, e) ==
    /\ result' = except_result(mapping, e)
    /\ raised' = e
    /\ pc' = "returned"

(***************************************************************************)
(* main: connect_databases.  pymysql connects here and may fail; the       *)
(* ClickHouse client connects lazily, with its first query.                *)
(***************************************************************************)
ConnectDatabases ==
    /\ pc = "main"
    /\ \E mysql_ok \in BOOLEAN : pc' = IF mysql_ok THEN "list" ELSE "aborted"
    /\ UNCHANGED <<config, clickhouse, run, locals, result, history>>
    /\ UNCHANGED units

\* migrate_all_tables, lines 755-762
ListDirectory ==
    /\ pc = "list"
    /\ csv_files' = SelectSeq(directory, endswith_csv)
    /\ results' = <<>>
    /\ file_idx' = 1
    /\ pc' = IF csv_files' = <<>> THEN "summary" ELSE "pending"
    /\ UNCHANGED <<config, clickhouse, summary, locals, result, history>>
    /\ UNCHANGED units

\* migrate_table, lines 617-622
LoadMapping ==
    /\ pc = "pending"
    /\ LET loaded == load_csv_mapping(csv_files[file_idx])
       IN  /\ table_mapping' = IF loaded.ok THEN loaded.value ELSE None
           /\ IF loaded.ok
              THEN pc' = "check_source" /\ result' = None /\ raised' = <<>>
              ELSE Raise(None, loaded.error)
    /\ mysql_row_count' = 0
    /\ mysql_structure' = <<>>
    /\ table_comment' = <<>>
    /\ clickhouse_fields' = <<>>
    /\ final_field_mappings' = <<>>
    /\ rownumber' = 0
    /\ batch_data' = <<>>
    /\ total_migrated' = 0
    /\ faulted' = FALSE
    /\ ch_ops' = <<>>
    /\ ch_before' = clickhouse
    /\ fetched' = <<>>
    /\ submitted' = <<>>
    /\ UNCHANGED <<config, clickhouse, run, fault_log>>
    /\ UNCHANGED units

\* migrate_table, lines 624-634
CheckSource ==
    /\ pc = "check_source"
    /\ \E query_ok \in BOOLEAN :
         /\ mysql_row_count' = get_table_row_count(table_mapping.mysql_table, query_ok)
         /\ faulted' = (faulted \/ ~query_ok)
         /\ IF source_absent_or_empty(mysql_row_count')
            THEN Return(Failed(table_mapping, SOURCE_ABSENT_OR_EMPTY))
            ELSE pc' = "check_target" /\ UNCHANGED <<result, raised>>
    /\ UNCHANGED <<config, clickhouse, run, table_mapping, mysql_structure, table_comment,
                   clickhouse_fields, final_field_mappings, rownumber, batch_data,
                   total_migrated, fault_log, ch_ops, ch_before, fetched, submitted>>
    /\ UNCHANGED units

\* migrate_table, lines 636-649
CheckTarget ==
    /\ pc = "check_target"
    /\ \E exists_ok \in BOOLEAN :
         LET t == table_mapping.clickhouse_table
             policy == IF table_exists(clickhouse, t, exists_ok)
                       THEN existing_table_policy(skip_existing, auto_recreate)
                       ELSE "absent"
         IN  CASE policy = "skip" ->
                    \E count_ok \in BOOLEAN :
                       /\ Return(Succeeded(table_mapping, mysql_row_count,
                                           ch_get_table_row_count(clickhouse, t, count_ok)))
                       /\ ch_ops' = ch_ops \o <<[op |-> "EXISTS", ok |-> exists_ok],
                                                [op |-> "COUNT", ok |-> count_ok]>>
                       /\ faulted' = (faulted \/ ~count_ok)
                       /\ UNCHANGED clickhouse
               [] policy = "drop" ->
                    \E drop_ok \in BOOLEAN :
                       /\ clickhouse' = IF drop_ok THEN ch_drop(clickhouse, t) ELSE clickhouse
                       /\ ch_ops' = ch_ops \o <<[op |-> "EXISTS", ok |-> exists_ok],
                                                [op |-> "DROP", ok |-> drop_ok]>>
                       /\ faulted' = (faulted \/ ~drop_ok)
                       /\ pc' = "read_structure"
                       /\ UNCHANGED <<result, raised>>
               [] OTHER ->
                    /\ ch_ops' = Append(ch_ops, [op |-> "EXISTS", ok |-> exists_ok])
                    /\ faulted' = (faulted \/ ~exists_ok)
                    /\ pc' = "read_structure"
                    /\ UNCHANGED <<clickhouse, result, raised>>
    /\ UNCHANGED <<config, run, locals, fault_log, ch_before, fetched, submitted>>
    /\ UNCHANGED units

\* migrate_table, lines 651-665
ReadStructure ==
    /\ pc = "read_structure"
    /\ \E structure_ok, comment_ok \in BOOLEAN :
         /\ faulted' = (faulted \/ ~structure_ok \/ ~comment_ok)
         /\ IF structure_ok
            THEN LET built == build_fields(get_table_structure(table_mapping.mysql_table),
                                           table_mapping.field_mappings,
                                           [clickhouse_fields |-> <<>>,
                                            final_field_mappings |-> <<>>])
                 IN  /\ mysql_structure' = get_table_structure(table_mapping.mysql_table)
                     /\ table_comment' =
                            get_table_comment(table_mapping.mysql_table, comment_ok)
                     /\ clickhouse_fields' = built.clickhouse_fields
                     /\ final_field_mappings' = built.final_field_mappings
                     /\ pc' = "create_table"
                     /\ UNCHANGED <<result, raised>>
            ELSE /\ Raise(table_mapping,
                          Wrap("get_table_structure failed", <<"query failed">>))
                 /\ UNCHANGED <<mysql_structure, table_comment, clickhouse_fields,
                                final_field_mappings>>
    /\ UNCHANGED <<config, clickhouse, run, table_mapping, mysql_row_count, rownumber,
                   batch_data, total_migrated, fault_log, ch_ops, ch_before, fetched,
                   submitted>>
    /\ UNCHANGED units

\* migrate_table, lines 667-673, and create_table
CreateTable ==
    /\ pc = "create_table"
    /\ \E server_ok \in BOOLEAN :
         LET t == table_mapping.clickhouse_table
             key == primary_key_field(clickhouse_fields)
             accepted == server_ok /\ ch_create_accepts(clickhouse, t, clickhouse_fields)
         IN  IF clickhouse_fields = <<>>
             THEN /\ Raise(table_mapping, Wrap("create_table failed", <<"no field">>))
                  /\ UNCHANGED <<clickhouse, ch_ops, faulted>>
             ELSE /\ ch_ops' = Append(ch_ops,
                                  [op |-> "CREATE", ok |-> accepted, order_by |-> key])
                  /\ faulted' = (faulted \/ ~server_ok)
                  /\ IF accepted
                     THEN /\ clickhouse' = ch_create(clickhouse, t, clickhouse_fields, key,
                                                     table_comment)
                          /\ pc' = "fetch"
                          /\ UNCHANGED <<result, raised>>
                     ELSE /\ Raise(table_mapping,
                                   Wrap("create_table failed", <<"CREATE rejected">>))
                          /\ UNCHANGED clickhouse
    /\ UNCHANGED <<config, run, locals, fault_log, ch_before, fetched, submitted>>
    /\ UNCHANGED units

\* migrate_table, line 681: the next step of the generator get_table_data
FetchBatch ==
    /\ pc = "fetch"
    /\ \E query_ok \in BOOLEAN :
         LET rows == fetchmany(MySQLTables[table_mapping.mysql_table].rows, rownumber,
                               batch_size)
         IN  /\ faulted' = (faulted \/ ~query_ok)
             /\ IF ~(query_ok /\ mysql_has(table_mapping.mysql_table))
                THEN /\ Raise(table_mapping,
                              Wrap("get_table_data failed", <<"query failed">>))
                     /\ UNCHANGED <<rownumber, batch_data, fetched>>
                ELSE IF rows = <<>>
                THEN /\ pc' = "verify"
                     /\ UNCHANGED <<rownumber, batch_data, fetched, result, raised>>
                ELSE /\ batch_data' = rows
                     /\ rownumber' = rownumber + Len(rows)
                     /\ fetched' = Append(fetched, rows)
                     /\ pc' = "insert"
                     /\ UNCHANGED <<result, raised>>
    /\ UNCHANGED <<config, clickhouse, run, table_mapping, mysql_row_count, mysql_structure,
                   table_comment, clickhouse_fields, final_field_mappings, total_migrated,
                   fault_log, ch_ops, ch_before, submitted>>
    /\ UNCHANGED units

\* the log entry of one INSERT statement: the whole batch (bulk) or one row of it
InsertOp(names, rows, bulk, ok) ==
    [op |-> "INSERT", ok |-> ok, bulk |-> bulk, field_names |-> names, rows |-> rows]

\* migrate_table, lines 695-725, and insert_batch
InsertBatch ==
    /\ pc = "insert"
    /\ LET t == table_mapping.clickhouse_table
           mapped_data == [i \in DOMAIN batch_data |->
                              mapped_row(batch_data[i], mysql_structure, final_field_mappings)]
           names == clickhouse_field_names(mysql_structure, final_field_mappings)
           types == clickhouse_field_types(mysql_structure, final_field_mappings)
           processed_data == [i \in DOMAIN mapped_data |-> process_row(mapped_data[i], types)]
           retried == diagnostic_rows(processed_data)
       IN  /\ submitted' = Append(submitted, [field_names |-> names, field_types |-> types,
                                              data_batch |-> mapped_data])
           /\ \E server_ok \in BOOLEAN :
                /\ faulted' = (faulted \/ ~server_ok)
                /\ IF server_ok /\ ch_insert_accepts(clickhouse, t, names, processed_data)
                   THEN /\ clickhouse' = ch_insert(clickhouse, t, names, processed_data)
                        /\ ch_ops' = Append(ch_ops, InsertOp(names, processed_data, TRUE, TRUE))
                        /\ total_migrated' = total_migrated + Len(mapped_data)
                        /\ pc' = "fetch"
                        /\ UNCHANGED <<result, raised>>
                   ELSE \E accepted \in 0..Len(retried) :
                          \* the rows retried are accepted up to the first that is rejected
                          /\ accepted > 0 => ch_insert_accepts(clickhouse, t, names, retried)
                          /\ clickhouse' =
                               IF accepted = 0 THEN clickhouse
                               ELSE ch_insert(clickhouse, t, names,
                                              SubSeq(retried, 1, accepted))
                          /\ ch_ops' =
                               ch_ops \o <<InsertOp(names, processed_data, TRUE, FALSE)>>
                               \o [i \in 1..accepted |->
                                      InsertOp(names, <<retried[i]>>, FALSE, TRUE)]
                               \o (IF accepted < Len(retried)
                                   THEN <<InsertOp(names, <<retried[accepted + 1]>>,
                                                   FALSE, FALSE)>>
                                   ELSE <<>>)
                          /\ Raise(table_mapping,
                                   Wrap("insert_batch failed",
                                        Wrap("insert_batch failed", <<"INSERT rejected">>)))
                          /\ UNCHANGED total_migrated
    /\ UNCHANGED <<config, run, table_mapping, mysql_row_count, mysql_structure,
                   table_comment, clickhouse_fields, final_field_mappings, rownumber,
                   batch_data, fault_log, ch_before, fetched>>
    /\ UNCHANGED units

\* migrate_table, lines 727-741
VerifyMigration ==
    /\ pc = "verify"
    /\ \E count_ok \in BOOLEAN :
         /\ Return(verified_result(table_mapping, mysql_row_count,
                       ch_get_table_row_count(clickhouse, table_mapping.clickhouse_table,
                                              count_ok)))
         /\ ch_ops' = Append(ch_ops, [op |-> "COUNT", ok |-> count_ok])
         /\ faulted' = (faulted \/ ~count_ok)
    /\ UNCHANGED <<config, clickhouse, run, locals, fault_log, ch_before, fetched, submitted>>
    /\ UNCHANGED units

\* migrate_all_tables, lines 766-767
AppendResult ==
    /\ pc = "returned"
    /\ results' = Append(results, result)
    /\ fault_log' = Append(fault_log, faulted)
    /\ file_idx' = file_idx + 1
    /\ pc' = after_table(result, file_idx, csv_files)
    /\ UNCHANGED <<config, clickhouse, csv_files, summary, locals, result, raised, faulted,
                   ch_ops, ch_before, fetched, submitted>>
    /\ UNCHANGED units

\* print_migration_summary, lines 777-782
PrintSummary ==
    /\ pc = "summary"
    /\ summary' = <<Len(results),
                    Cardinality({i \in DOMAIN results : results[i].success}),
                    Cardinality({i \in DOMAIN results : ~results[i].success})>>
    /\ pc' = "done"
    /\ UNCHANGED <<config, clickhouse, csv_files, file_idx, results, locals, result, history>>
    /\ UNCHANGED units

Next ==
    \/ ConnectDatabases
    \/ ListDirectory
    \/ LoadMapping
    \/ CheckSource
    \/ CheckTarget
    \/ ReadStructure
    \/ CreateTable
    \/ FetchBatch
    \/ InsertBatch
    \/ VerifyMigration
    \/ AppendResult
    \/ PrintSummary

Spec == Init /\ [][Next]_vars

(***************************************************************************)
(* The value conversion on its own: one cell of a batch, of every kind of  *)
(* value the source driver delivers, for every target type the type mapper *)
(* produces.                                                               *)
(***************************************************************************)
\* `n` times the character c
Repeat(c, n) == [i \in 1..n |-> c]

\* the strings of source cells
Strings ==
    { <<>>, <<" ">>, <<"a", "b", "c">>,
      <<"3", ".", "0">>, <<"-", "7", ".", "9">>, <<" ", "4", "2", " ">>, <<"i", "n", "f">>,
      <<"2", "0", "2", "4", "-", "0", "1", "-", "0", "2">>,
      <<"2", "0", "2", "4", "-", "0", "1", "-", "0", "2", " ",
        "0", "3", ":", "0", "4", ":", "0", "5">>,
      <<"2", "0", "2", "4", "-", "0", "1", "-", "0", "2", " ",
        "0", "3", ":", "0", "4", ":", "0", "5", ".", "5">>,
      <<"2", "0", "2", "4", "-", "0", "2", "-", "3", "0">>,
      <<"0", "2", "/", "0", "1", "/", "2", "0", "2", "4">>,
      <<"t", "r", "u", "e">>, <<"Y", "E", "S">>, <<"1">>,
      <<"a", "NUL", "b">>, <<"\t", "a", "\n", "\r">>, <<"BEL", "ESC">>, <<"a", "DEL">>,
      <<"a", "SURROGATE">>,
      Repeat("a", CLEAN_MAX_LEN), Repeat("a", CLEAN_MAX_LEN + 1),
      <<"NUL">> \o Repeat("a", LongLen) }

\* the values of source cells
Values ==
    {None, PyInt(0), PyInt(7), PyInt(-3), PyBool(TRUE), PyBool(FALSE),
     PyFloat(0, 0), PyFloat(25, 1), PyFloat(-25, 1), PyFloatInf,
     PyDecimal(1250, 2), PyDecimal(-5, 0),
     PyDate(2024, 2, 29),
     PyDatetime(2024, 1, 2, 3, 4, 5, 0), PyDatetime(2024, 1, 2, 3, 4, 5, 500000),
     PyBytes(<<"a", "NUL">>), PyBytes(Repeat("a", CLEAN_MAX_LEN + 1))}
    \cup {PyStr(s) : s \in Strings}

\* the type texts of source columns: every key of TYPE_MAPPING, and base
\* types in several letter cases with and without a parameter list
ParameterLists ==
    { <<>>, <<"(", "1", ")">>, <<"(", "2", ")">>, <<"(", "4", ")">>, <<"(", "10", ")">>,
      <<"(", "11", ")">>, <<"(", "10", ",", "2">> \o <<")">>,
      <<"(", "10", ",", " ", "2", ")">> }

MySQLTypes ==
    {TYPE_MAPPING[i][1] : i \in DOMAIN TYPE_MAPPING}
    \cup {<<base>> \o parameters \o suffix :
            base \in {"TINYINT", "tinyint", "TinyInt", "SMALLINT", "MEDIUMINT", "INT", "int",
                      "INTEGER", "BIGINT", "bigint", "DECIMAL", "decimal",
                      "Decimal", "VARCHAR", "varchar", "uuid", "UUID"},
            parameters \in ParameterLists,
            suffix \in {<<>>, <<" ", "UNSIGNED">>}}
    \cup {<<>>, <<"TINYINT", " ", "(", "1", ")">>, <<"DECIMAL", "(", "10", ",", "2">>}

\* the target types the type mapper produces
TargetTypes == {map_mysql_type_to_clickhouse(t) : t \in MySQLTypes}

UnitInit ==
    /\ directory = <<>>
    /\ batch_size = MaxBatchSize
    /\ auto_recreate = FALSE
    /\ skip_existing = FALSE
    /\ clickhouse = [t \in CHTableNames |-> NoTable]
    /\ NoRun

CoercerInit ==
    /\ UnitInit
    /\ pc = "cell"
    /\ arg_value \in Values
    /\ arg_field_type \in TargetTypes
    /\ converted_value = None
    /\ arg_mysql_type = <<>>
    /\ returned_type = <<>>
    /\ printed = <<>>

UnitFrame ==
    UNCHANGED <<config, clickhouse, run, locals, result, history>>

\* insert_batch, lines 300-321: one cell of a row is processed
ProcessCell ==
    /\ pc = "cell"
    /\ converted_value' = process_row(<<arg_value>>, <<arg_field_type>>)[1]
    /\ \E i \in {0, 1} :
          printed' = process_cell_prints(i, arg_value, arg_field_type, T("field_0"))
    /\ pc' = "processed"
    /\ UnitFrame
    /\ UNCHANGED <<arg_value, arg_field_type, arg_mysql_type, returned_type>>

\* a call of _convert_value_for_clickhouse
ConvertValue ==
    /\ pc = "cell"
    /\ converted_value' = _convert_value_for_clickhouse(arg_value, arg_field_type)
    /\ printed' = convert_value_prints(arg_value, arg_field_type, <<>>)
    /\ pc' = "converted"
    /\ UnitFrame
    /\ UNCHANGED <<arg_value, arg_field_type, arg_mysql_type, returned_type>>

\* a call of _clean_string_value
CleanStringValue ==
    /\ pc = "cell"
    /\ arg_value.py = "str"
    /\ converted_value' = PyStr(_clean_string_value(arg_value.str))
    /\ printed' = clean_string_prints(arg_value.str)
    /\ pc' = "cleaned"
    /\ UnitFrame
    /\ UNCHANGED <<arg_value, arg_field_type, arg_mysql_type, returned_type>>

CoercerNext ==
    \/ ProcessCell
    \/ ConvertValue
    \/ CleanStringValue

CoercerSpec == CoercerInit /\ [][CoercerNext]_vars

(***************************************************************************)
(* The type mapper on its own.                                             *)
(***************************************************************************)
TypeMapperInit ==
    /\ UnitInit
    /\ pc = "type"
    /\ arg_value = None
    /\ arg_field_type = <<"String">>
    /\ converted_value = None
    /\ arg_mysql_type \in MySQLTypes
    /\ returned_type = <<>>
    /\ printed = <<>>

\* a call of map_mysql_type_to_clickhouse
MapType ==
    /\ pc = "type"
    /\ returned_type' = map_mysql_type_to_clickhouse(arg_mysql_type)
    /\ pc' = "mapped"
    /\ UnitFrame
    /\ UNCHANGED <<arg_value, arg_field_type, converted_value, arg_mysql_type, printed>>

TypeMapperNext == MapType

TypeMapperSpec == TypeMapperInit /\ [][TypeMapperNext]_vars

(***************************************************************************)
(* Claims.                                                                 *)
(***************************************************************************)
Loaded == table_mapping # None

\* the mapping a result must carry for a file: the file's mapping, or None
\* with a failure when the file does not load
ResultIsFor(r, file) ==
    LET loaded == load_csv_mapping(file)
    IN  IF loaded.ok THEN r.table_mapping = loaded.value
        ELSE r.table_mapping = None /\ ~r.success /\ r.error_message = loaded.error

\* C1: every exception raised while a table is migrated becomes a Failed result
\* with its message, and the run goes on: while the loop runs there is one
\* result for each file already processed, and when the loop has ended there is
\* exactly one result for each mapping file, in the order of the files.
C1_OneResultPerFile ==
    /\ \A i \in DOMAIN results : i <= Len(csv_files) /\ ResultIsFor(results[i], csv_files[i])
    /\ pc \in {"pending", "check_source", "check_target", "read_structure", "create_table",
               "fetch", "insert", "verify", "returned"}
          => Len(results) = file_idx - 1 /\ file_idx <= Len(csv_files)
    /\ pc = "returned" /\ raised # <<>>
          => result = Failed(table_mapping, raised)
    /\ pc \in {"summary", "done"} => Len(results) = Len(csv_files)

\* a run of two files: the first fails on a rejected insert, the second succeeds
C1_Witness ==
    /\ pc = "done"
    /\ Len(results) = 2
    /\ ~results[1].success
    /\ results[1].error_message[1] = "insert_batch failed"
    /\ results[2].success

\* C2: a source row count of 0 ends the migration Failed with the 'absent or
\* empty' message before any statement is sent to the target, which is left as
\* it was; past that check the row count is not 0.
C2_EmptySourceTouchesNothing ==
    /\ pc \in {"check_target", "read_structure", "create_table", "fetch", "insert", "verify"}
          => mysql_row_count # 0
    /\ pc = "returned" /\ Loaded /\ mysql_row_count = 0
          => /\ result = Failed(table_mapping, SOURCE_ABSENT_OR_EMPTY)
             /\ ch_ops = <<>>
             /\ clickhouse = ch_before

\* the source table exists and is empty, and the target table exists
C2_Witness ==
    /\ pc = "returned"
    /\ Loaded
    /\ mysql_row_count = 0
    /\ ~faulted
    /\ table_mapping.mysql_table = T("empty")
    /\ ch_exists(clickhouse, T("users"))

\* C3: in a migration whose queries are all answered, a target table that
\* exists with skip_existing_tables set makes migrate_table return success
\* with the row count the table had, after an EXISTS and a COUNT query only:
\* nothing is dropped, created or inserted and the target is unchanged,
\* whatever auto_recreate_table says.
C3_SkipExistingLeavesTarget ==
    (/\ pc = "returned"
     /\ Loaded
     /\ ~faulted
     /\ mysql_row_count > 0
     /\ skip_existing
     /\ ch_exists(ch_before, table_mapping.clickhouse_table))
    => /\ result = Succeeded(table_mapping, mysql_row_count,
                             Len(ch_before[table_mapping.clickhouse_table].rows))
       /\ clickhouse = ch_before
       /\ [i \in DOMAIN ch_ops |-> ch_ops[i].op] = <<"EXISTS", "COUNT">>

\* the skipped table holds rows and auto_recreate_table is set too
C3_Witness ==
    /\ pc = "returned"
    /\ Loaded
    /\ ~faulted
    /\ skip_existing
    /\ auto_recreate
    /\ ch_exists(ch_before, table_mapping.clickhouse_table)
    /\ result.success
    /\ result.clickhouse_rows = 2
    /\ result.mysql_rows = 3

\* the rows of the source table of the current migration
SourceRows ==
    IF Loaded /\ mysql_has(table_mapping.mysql_table)
    THEN MySQLTables[table_mapping.mysql_table].rows ELSE <<>>

\* the migration created its target table and ended without an exception
StreamingCompleted ==
    /\ pc = "returned"
    /\ raised = <<>>
    /\ \E i \in DOMAIN ch_ops : ch_ops[i].op = "CREATE" /\ ch_ops[i].ok

InsertOps == SelectSeq(ch_ops, LAMBDA o : o.op = "INSERT")

\* C4: a migration that streams every batch without an insert error returns
\* success carrying the source row count and the target row count as the final
\* COUNT query reports it, equal or not; every batch was inserted once and no
\* statement follows the COUNT.
C4_MismatchIsSuccess ==
    StreamingCompleted
    => /\ result.success
       /\ result.error_message = <<>>
       /\ result.mysql_rows = mysql_row_count
       /\ ch_ops[Len(ch_ops)].op = "COUNT"
       /\ result.clickhouse_rows =
            (IF ch_ops[Len(ch_ops)].ok
             THEN Len(clickhouse[table_mapping.clickhouse_table].rows) ELSE 0)
       /\ Len(InsertOps) = Len(fetched)
       /\ \A i \in DOMAIN InsertOps : InsertOps[i].bulk /\ InsertOps[i].ok

\* streaming completed and the two counts of the result differ
C4_Witness ==
    /\ StreamingCompleted
    /\ result.success
    /\ result.mysql_rows = 3
    /\ result.clickhouse_rows # result.mysql_rows
    /\ Len(clickhouse[table_mapping.clickhouse_table].rows) = 3

\* results i and i+1 are migrations of the same mapping, both with every query
\* answered, of a source table that has rows
SameTableTwice(i) ==
    LET first == load_csv_mapping(csv_files[i])
        second == load_csv_mapping(csv_files[i + 1])
    IN  /\ first.ok /\ second.ok
        /\ first.value = second.value
        /\ ~fault_log[i] /\ ~fault_log[i + 1]
        /\ mysql_has(first.value.mysql_table)
        /\ MySQLTables[first.value.mysql_table].rows # <<>>
        /\ \E j \in DOMAIN MySQLTables[first.value.mysql_table].structure :
               MySQLTables[first.value.mysql_table].structure[j][1]
                   \in DictKeys(first.value.field_mappings)

\* C5: with auto_recreate_table set and skip_existing_tables not set, two
\* migrations in a row of the same mapping of an unchanged source table, both
\* with every query answered, both succeed and report the same target row
\* count, the number of source rows: the second does not append to the first.
C5_RecreateIsIdempotent ==
    (auto_recreate /\ ~skip_existing)
    => \A i \in 1..(Len(results) - 1) :
          SameTableTwice(i)
          => /\ results[i].success /\ results[i + 1].success
             /\ results[i + 1].clickhouse_rows = results[i].clickhouse_rows
             /\ results[i + 1].clickhouse_rows =
                   Len(MySQLTables[results[i].table_mapping.mysql_table].rows)

C5_Witness ==
    /\ auto_recreate /\ ~skip_existing
    /\ Len(results) = 2
    /\ SameTableTwice(1)
    /\ results[1].success /\ results[2].success
    /\ results[1].clickhouse_rows = 3 /\ results[2].clickhouse_rows = 3

RECURSIVE Flatten(_)
Flatten(batches) == IF batches = <<>> THEN <<>> ELSE Head(batches) \o Flatten(Tail(batches))

\* C6: get_table_data yields the source rows in order, in non-empty batches of
\* batch_size rows of which only the last may be smaller; each batch is
\* submitted before the next is fetched; when the generator is exhausted every
\* source row was read and submitted once, in one accepted INSERT per batch.
C6_BatchesInOrder ==
    /\ \A i \in DOMAIN fetched : Len(fetched[i]) \in 1..batch_size
    /\ \A i \in 1..(Len(fetched) - 1) : Len(fetched[i]) = batch_size
    /\ Flatten(fetched) = SubSeq(SourceRows, 1, rownumber)
    /\ Len(submitted) <= Len(fetched) /\ Len(fetched) <= Len(submitted) + 1
    /\ pc = "insert" <=> Len(fetched) = Len(submitted) + 1
    /\ \A i \in DOMAIN submitted :
          Len(submitted[i].data_batch) = Len(fetched[i])
    /\ pc = "verify"
          => /\ rownumber = Len(SourceRows)
             /\ total_migrated = Len(SourceRows)
             /\ Len(InsertOps) = Len(fetched)
             /\ \A i \in DOMAIN InsertOps :
                   /\ InsertOps[i].bulk /\ InsertOps[i].ok
                   /\ Len(InsertOps[i].rows) = Len(fetched[i])
             /\ Len(clickhouse[table_mapping.clickhouse_table].rows) = Len(SourceRows)

\* the generator is exhausted after a full batch and a smaller last batch
C6_Witness ==
    /\ pc = "verify"
    /\ Len(fetched) = 2
    /\ Len(fetched[1]) = batch_size
    /\ Len(fetched[2]) < batch_size
    /\ total_migrated = Len(SourceRows)

\* the rejected bulk inserts among the statements of this migration
BulkFailures == {i \in DOMAIN ch_ops : ch_ops[i].op = "INSERT" /\ ch_ops[i].bulk /\ ~ch_ops[i].ok}

\* C7: after a rejected bulk insert the statements that follow are single-row
\* inserts of the first rows of that batch, in order, at most 5 of them, each
\* but the last accepted, all of the first 5 when none is rejected; the
\* migration then ends Failed with the batch-insert error message, whether or
\* not a retried row was rejected, and no further batch is fetched or inserted.
C7_BoundedDiagnosticRetry ==
    \A i \in BulkFailures :
        LET batch == ch_ops[i].rows
            tail == SubSeq(ch_ops, i + 1, Len(ch_ops))
        IN  /\ pc \in {"returned", "pending", "summary", "done"}
            /\ result = Failed(table_mapping,
                               <<"insert_batch failed", "insert_batch failed",
                                 "INSERT rejected">>)
            /\ Len(tail) >= 1 /\ Len(tail) <= 5
            /\ \A j \in DOMAIN tail :
                  /\ tail[j].op = "INSERT" /\ ~tail[j].bulk
                  /\ tail[j].rows = <<batch[j]>>
            /\ \A j \in 1..(Len(tail) - 1) : tail[j].ok
            /\ tail[Len(tail)].ok => Len(tail) = Min(5, Len(batch))
            /\ Len(fetched) = Len(submitted)
            /\ Len(batch) = Len(fetched[Len(fetched)])

\* a batch of more than 5 rows is rejected and each of its first 5 rows is
\* accepted when retried
C7_Witness ==
    /\ pc = "returned"
    /\ \E i \in BulkFailures :
          /\ Len(ch_ops[i].rows) > 5
          /\ Len(ch_ops) = i + 5
          /\ \A j \in (i + 1)..Len(ch_ops) : ch_ops[j].ok
    /\ ~result.success

\* the schema of the source table of the current migration
SourceStructure ==
    IF Loaded /\ mysql_has(table_mapping.mysql_table)
    THEN MySQLTables[table_mapping.mysql_table].structure ELSE <<>>

\* the positions, in source column order, of the source columns that are keys
\* of the mapping loaded from the file
MappedPositions ==
    SelectSeq([i \in DOMAIN SourceStructure |-> i],
              LAMBDA i : SourceStructure[i][1] \in DictKeys(table_mapping.field_mappings))

ExpectedNames ==
    [j \in DOMAIN MappedPositions |->
        DictGet(table_mapping.field_mappings, SourceStructure[MappedPositions[j]][1])[1]]

ExpectedTypes ==
    [j \in DOMAIN MappedPositions |->
        map_mysql_type_to_clickhouse(SourceStructure[MappedPositions[j]][2])]

Coerced(cell, field_type) ==
    IF cell = None THEN _get_default_value_for_type(field_type)
    ELSE _convert_value_for_clickhouse(cell, field_type)

BulkInsertOps == SelectSeq(ch_ops, LAMBDA o : o.op = "INSERT" /\ o.bulk)

\* C8: every batch is submitted with the target names and the target types of
\* the mapped source columns in source column order; each of its rows holds the
\* cells of exactly those columns in that order; the INSERT statement names the
\* same columns and carries cell j coerced with type j; when every batch was
\* accepted the stored row r holds under name j the coerced cell j of source row r.
C8_RowsFollowMappedColumns ==
    /\ \A b \in DOMAIN submitted :
          /\ submitted[b].field_names = ExpectedNames
          /\ submitted[b].field_types = ExpectedTypes
          /\ Len(submitted[b].data_batch) = Len(fetched[b])
          /\ \A k \in DOMAIN submitted[b].data_batch :
                submitted[b].data_batch[k] =
                    [j \in DOMAIN MappedPositions |-> fetched[b][k][MappedPositions[j]]]
    /\ Len(BulkInsertOps) = Len(submitted)
    /\ \A b \in DOMAIN BulkInsertOps :
          /\ BulkInsertOps[b].field_names = ExpectedNames
          /\ BulkInsertOps[b].rows =
                [k \in DOMAIN submitted[b].data_batch |->
                    [j \in DOMAIN MappedPositions |->
                        Coerced(submitted[b].data_batch[k][j], ExpectedTypes[j])]]
    /\ pc = "verify"
          => LET stored == clickhouse[table_mapping.clickhouse_table].rows
             IN  /\ Len(stored) = Len(SourceRows)
                 /\ \A r \in DOMAIN stored : \A j \in DOMAIN MappedPositions :
                       stored[r][ExpectedNames[j]] =
                           Coerced(SourceRows[r][MappedPositions[j]], ExpectedTypes[j])

\* every batch of a table with an unmapped column in the middle was inserted;
\* the NULL of the third source row is stored as the default of DateTime
C8_Witness ==
    /\ pc = "verify"
    /\ MappedPositions = <<1, 3>>
    /\ ExpectedNames = <<T("uid"), T("created_at")>>
    /\ Len(submitted) = 2
    /\ Len(submitted[1].data_batch[1]) = 2
    /\ Len(fetched[1][1]) = 3
    /\ clickhouse[table_mapping.clickhouse_table].rows[3][T("created_at")] =
          PyDatetime(2000, 1, 1, 0, 0, 0, 0)

\* the migration of a source table that has rows went on to create its target
\* table, which did not exist or was to be recreated, and every query was answered
MigratesMappedFields ==
    /\ pc = "returned" /\ Loaded /\ ~faulted
    /\ mysql_row_count > 0
    /\ MappedPositions # <<>>
    /\ \/ ~ch_exists(ch_before, table_mapping.clickhouse_table)
       \/ auto_recreate /\ ~skip_existing

\* C9: when at least one field of the mapping is a source column, the
\* migration (every query answered, target table absent or recreated) succeeds
\* without an error message; the target table has exactly the mapped fields
\* that are source columns, in source column order, and every row submitted and
\* stored has exactly those cells: mapping fields that are no source column and
\* source columns that are no mapping key are left out.
C9_MissingFieldsAreDropped ==
    MigratesMappedFields
    => LET created == clickhouse[table_mapping.clickhouse_table]
       IN  /\ result.success /\ result.error_message = <<>>
           /\ result.clickhouse_rows = Len(SourceRows)
           /\ created.exists
           /\ created.fields =
                 [j \in DOMAIN MappedPositions |->
                     <<ExpectedNames[j], ExpectedTypes[j],
                       SourceStructure[MappedPositions[j]][3]>>]
           /\ \A b \in DOMAIN submitted : \A k \in DOMAIN submitted[b].data_batch :
                 Len(submitted[b].data_batch[k]) = Len(MappedPositions)
           /\ \A r \in DOMAIN created.rows : DOMAIN created.rows[r] = Range(ExpectedNames)

\* the mapping names a field that is no source column (product_code) and
\* leaves out a source column (name)
C9_Witness ==
    /\ MigratesMappedFields
    /\ T("product_code") \in DictKeys(table_mapping.field_mappings)
    /\ \A i \in DOMAIN SourceStructure : SourceStructure[i][1] # T("product_code")
    /\ \E i \in DOMAIN SourceStructure :
          SourceStructure[i][1] \notin DictKeys(table_mapping.field_mappings)
    /\ result.success
    /\ Len(clickhouse[table_mapping.clickhouse_table].fields) = 2
    /\ Len(clickhouse[table_mapping.clickhouse_table].rows) = 3

CreateOps == SelectSeq(ch_ops, LAMBDA o : o.op = "CREATE")

TypeFamily(target_type) ==
    CASE target_type = <<>> -> "other"
      [] target_type # <<>> /\ target_type[1] \in {"Int8", "UInt8", "Int16", "UInt16", "Int32",
                                                    "UInt32", "Int64", "UInt64"} -> "integer"
      [] target_type # <<>> /\ target_type[1] \in {"Float32", "Float64"} -> "float"
      [] target_type # <<>> /\ target_type[1] = "Decimal" -> "decimal"
      [] target_type = <<"Date32">> -> "date"
      [] target_type # <<>> /\ target_type[1] = "DateTime64" -> "timestamp"
      [] target_type = <<"Bool">> -> "boolean"
      [] target_type \in {<<"String">>, <<"LowCardinality", "(", "String", ")">>} -> "string"
      [] OTHER -> "other"

\* the documented default of a family
DocumentedDefault(family) ==
    CASE family = "integer" -> PyInt(0)
      [] family \in {"float", "decimal"} -> PyFloat(0, 0)
      [] family = "date" -> PyDate(2000, 1, 1)
      [] family = "timestamp" -> PyDatetime(2000, 1, 1, 0, 0, 0, 0)
      [] family = "boolean" -> PyBool(FALSE)
      [] family = "string" -> PyStr(<<>>)

\* a cell was processed by insert_batch or converted by _convert_value_for_clickhouse
CellDone == pc \in {"processed", "converted"}

\* C11: a NULL cell of a column of an integer, float, decimal, date, timestamp,
\* boolean or string target type becomes the documented default of the family
\* of the type: 0, 0.0, 0.0, 2000-01-01, 2000-01-01T00:00:00, false, ''.
C11_NullBecomesDocumentedDefault ==
    (CellDone /\ arg_value = None /\ TypeFamily(arg_field_type) # "other")
    => converted_value = DocumentedDefault(TypeFamily(arg_field_type))

\* C11 without the decimal types: the part of the claim the code meets
C11_NullBecomesDefaultButDecimal ==
    (CellDone /\ arg_value = None /\ TypeFamily(arg_field_type) \notin {"other", "decimal"})
    => converted_value = DocumentedDefault(TypeFamily(arg_field_type))

\* the default of a NULL cell of a Decimal(10,2) column is the integer 0
C11_DecimalDefaultIsInteger ==
    /\ pc = "processed"
    /\ arg_value = None
    /\ arg_field_type = <<"Decimal", "(", "10", ",", "2", ")">>
    /\ converted_value = PyInt(0)

\* float(s) returns: the string spells a number
SpellsNumber(s) == float_of_str(s).ok

AcceptedFormats == {FMT_DATETIME, FMT_DATETIME_F, FMT_DATE}

\* the accepted formats that the string matches
FormatsMatching(s) == {fmt \in AcceptedFormats : strptime(s, fmt).ok}

\* C12: _convert_value_for_clickhouse returns a value for every value that is
\* not NULL and every target type, whatever is raised inside it; a string that
\* spells no number becomes 0 for an integer type and 0.0 for a float or
\* decimal type, a string that matches no accepted format becomes the sentinel
\* of a date or timestamp type, and bytes become the default of every type that
\* is not a string type.
C12_ConversionIsTotal ==
    (pc = "converted" /\ arg_value # None)
    => LET family == TypeFamily(arg_field_type)
       IN  /\ converted_value.py \in {"int", "float", "bool", "str", "date", "datetime"}
           /\ (arg_value.py = "str" /\ ~SpellsNumber(arg_value.str)
               /\ family \in {"integer", "float", "decimal"})
                 => converted_value = DocumentedDefault(family)
           /\ (arg_value.py = "str" /\ FormatsMatching(arg_value.str) = {}
               /\ family \in {"date", "timestamp"})
                 => converted_value = DocumentedDefault(family)
           /\ (arg_value.py = "bytes" /\ family \notin {"string", "other"})
                 => converted_value = DocumentedDefault(family)

\* int(float('inf')) raises OverflowError inside the conversion of the string
\* 'inf' for Int64, and the conversion returns 0
C12_Witness ==
    /\ pc = "converted"
    /\ arg_value = PyStr(<<"i", "n", "f">>)
    /\ arg_field_type = <<"Int64">>
    /\ IsRaise(convert_value_try(arg_value, arg_field_type))
    /\ converted_value = PyInt(0)

\* C13: a date or a datetime converted for a Date32 or a DateTime64 column is
\* not replaced by the sentinel: it is returned unchanged (a datetime for
\* Date32: its date part).
C13_NativeDatesPassThrough ==
    (pc = "converted" /\ arg_value.py \in {"date", "datetime"}
     /\ TypeFamily(arg_field_type) \in {"date", "timestamp"})
    => converted_value =
          (IF arg_value.py = "datetime" /\ TypeFamily(arg_field_type) = "date"
           THEN date_of(arg_value) ELSE arg_value)

\* C13 for the timestamp types alone: the part of the claim the code meets
C13_NativeDatesPassThroughForTimestamp ==
    (pc = "converted" /\ arg_value.py \in {"date", "datetime"}
     /\ TypeFamily(arg_field_type) = "timestamp")
    => converted_value = arg_value

\* the date 2024-02-29 of a DATE column becomes 2000-01-01 for Date32
C13_DateBecomesSentinel ==
    /\ pc = "converted"
    /\ arg_value = PyDate(2024, 2, 29)
    /\ arg_field_type = map_mysql_type_to_clickhouse(<<"DATE">>)
    /\ converted_value = PyDate(2000, 1, 1)

\* the number a native numeric value stands for, as a float
NumberOf(v) ==
    CASE v.py = "int" -> PyFloat(v.int, 0)
      [] v.py = "float" -> v
      [] v.py = "Decimal" -> PyFloat(v.Decimal[1], v.Decimal[2])

\* a finite int, float or Decimal
IsNativeNumber(v) == v.py \in {"int", "float", "Decimal"} /\ ~IsInf(v)

\* C14: a finite int, float or Decimal converted for an integer type becomes
\* the integer it truncates to, and converted for a float or decimal type
\* becomes the float of the same number.
C14_NativeNumbersAreKept ==
    (pc = "converted" /\ IsNativeNumber(arg_value))
    => LET family == TypeFamily(arg_field_type)
       IN  /\ family = "integer"
                => converted_value = PyInt(int_of_float(NumberOf(arg_value)))
           /\ family \in {"float", "decimal"}
                => converted_value = NumberOf(arg_value)

\* C14 for int and float values alone: the part of the claim the code meets
C14_IntsAndFloatsAreKept ==
    (pc = "converted" /\ IsNativeNumber(arg_value) /\ arg_value.py # "Decimal")
    => LET family == TypeFamily(arg_field_type)
       IN  /\ family = "integer"
                => converted_value = PyInt(int_of_float(NumberOf(arg_value)))
           /\ family \in {"float", "decimal"}
                => converted_value = NumberOf(arg_value)

\* the Decimal 12.50 of a DECIMAL(10,2) column becomes 0.0 for Decimal(10,2)
C14_DecimalBecomesDefault ==
    /\ pc = "converted"
    /\ arg_value = PyDecimal(1250, 2)
    /\ arg_field_type = map_mysql_type_to_clickhouse(<<"DECIMAL", "(", "10", ",", "2", ")">>)
    /\ converted_value = PyFloat(0, 0)

\* the datetime the accepted formats give a string, the first that matches
\* taken in the order date with time, with fractional seconds, date only
FirstAcceptedParse(s) ==
    IF strptime(s, FMT_DATETIME).ok THEN strptime(s, FMT_DATETIME).value
    ELSE IF strptime(s, FMT_DATETIME_F).ok THEN strptime(s, FMT_DATETIME_F).value
    ELSE strptime(s, FMT_DATE).value

\* C15: a string converted for a date or a timestamp type becomes the
\* sentinel when it matches none of the three accepted formats, and otherwise
\* what the first format that matches parses (for a date type: its date).
C15_StringsParseByThreeFormats ==
    (pc = "converted" /\ arg_value.py = "str"
     /\ TypeFamily(arg_field_type) \in {"date", "timestamp"})
    => converted_value =
          (IF FormatsMatching(arg_value.str) = {}
           THEN DocumentedDefault(TypeFamily(arg_field_type))
           ELSE IF TypeFamily(arg_field_type) = "date"
           THEN date_of(FirstAcceptedParse(arg_value.str))
           ELSE FirstAcceptedParse(arg_value.str))

\* C15 for the timestamp types alone: the part of the claim the code meets
C15_StringsParseByThreeFormatsForTimestamp ==
    (pc = "converted" /\ arg_value.py = "str" /\ TypeFamily(arg_field_type) = "timestamp")
    => converted_value =
          (IF FormatsMatching(arg_value.str) = {}
           THEN DocumentedDefault("timestamp")
           ELSE FirstAcceptedParse(arg_value.str))

\* '2024-01-02 03:04:05.5' matches the format with fractional seconds and
\* becomes the sentinel for Date32
C15_FractionalSecondsBecomeSentinel ==
    /\ pc = "converted"
    /\ arg_value = PyStr(<<"2", "0", "2", "4", "-", "0", "1", "-", "0", "2", " ",
                           "0", "3", ":", "0", "4", ":", "0", "5", ".", "5">>)
    /\ FormatsMatching(arg_value.str) = {FMT_DATETIME_F}
    /\ arg_field_type = <<"Date32">>
    /\ converted_value = PyDate(2000, 1, 1)

\* a control character: C0 (below 32), DEL (127) or C1 (128 to 159)
IsControl(c) == Ord(c) < 32 \/ Ord(c) \in 127..159

\* a C0 control character
IsC0Control(c) == Ord(c) < 32

KeptControls == {"\t", "\n", "\r"}

\* the string cannot be encoded as UTF-8: it holds a lone surrogate
Unencodable(s) == \E i \in DOMAIN s : Ord(s[i]) \in 55296..57343

\* the first n characters of s
Cut(s, n) == IF Len(s) > n THEN SubSeq(s, 1, n) ELSE s

\* C16: _clean_string_value returns a string of at most 1000 characters
\* without control characters other than tab, newline and carriage return:
\* the empty string for an input that cannot be encoded, and otherwise the
\* input without those characters, cut to its first 1000 characters.
C16_CleanedIsInputWithoutControls ==
    pc = "cleaned"
    => LET out == converted_value.str
       IN  /\ Len(out) <= 1000
           /\ \A i \in DOMAIN out : IsControl(out[i]) => out[i] \in KeptControls
           /\ out = IF Unencodable(arg_value.str) THEN <<>>
                    ELSE Cut(SelectSeq(arg_value.str,
                                       LAMBDA c : ~IsControl(c) \/ c \in KeptControls),
                             1000)

\* C16 for the control characters below 32: the part of the claim the code meets
C16_CleanedIsInputWithoutC0Controls ==
    pc = "cleaned"
    => LET out == converted_value.str
       IN  /\ Len(out) <= 1000
           /\ \A i \in DOMAIN out : IsC0Control(out[i]) => out[i] \in KeptControls
           /\ out = IF Unencodable(arg_value.str) THEN <<>>
                    ELSE Cut(SelectSeq(arg_value.str,
                                       LAMBDA c : ~IsC0Control(c) \/ c \in KeptControls),
                             1000)

\* the control character DEL is still in the cleaned string
C16_DelIsKept ==
    /\ pc = "cleaned"
    /\ arg_value = PyStr(<<"a", "DEL">>)
    /\ converted_value = PyStr(<<"a", "DEL">>)

\* a NUL and more than 1000 other characters: the NUL is removed and the
\* string cut to 1000 characters
C16_LongIsCut ==
    /\ pc = "cleaned"
    /\ Len(arg_value.str) = LongLen + 1
    /\ arg_value.str[1] = "NUL"
    /\ converted_value = PyStr(Repeat("a", 1000))

\* the string of a value that is not NULL: the value itself, or str(value)
Stringified(v) == IF v.py = "str" THEN v.str ELSE str_of(v)

\* C17: a value that is not NULL converted for a string type is a string that
\* has passed _clean_string_value, whatever the Python type of the value: it
\* has at most 1000 characters.
C17_StringTargetsAreSanitized ==
    (pc = "converted" /\ arg_value # None /\ TypeFamily(arg_field_type) = "string")
    => /\ converted_value = PyStr(_clean_string_value(Stringified(arg_value)))
       /\ Len(converted_value.str) <= 1000

\* C17 for str values alone: the part of the claim the code meets
C17_StrValuesAreSanitized ==
    (pc = "converted" /\ arg_value.py = "str" /\ TypeFamily(arg_field_type) = "string")
    => /\ converted_value = PyStr(_clean_string_value(arg_value.str))
       /\ Len(converted_value.str) <= 1000

\* bytes of 1001 letters are sent to a String column as the 1004 characters
\* of their repr
C17_LongBytesAreNotCut ==
    /\ pc = "converted"
    /\ arg_value = PyBytes(Repeat("a", 1001))
    /\ arg_field_type = <<"String">>
    /\ converted_value = PyStr(<<"b", "'">> \o Repeat("a", 1001) \o <<"'">>)

\* the source type in upper case up to its first parenthesis, without
\* surrounding blanks
BaseType(type_text) ==
    LET up == upper(type_text)
        before == IF "(" \in Range(up) THEN SubSeq(up, 1, PyFind(up, "(")) ELSE up
    IN  strip(before)

RecognisedBaseTypes == {TYPE_MAPPING[i][1] : i \in DOMAIN TYPE_MAPPING}

\* C18: map_mysql_type_to_clickhouse returns a target type that is not empty
\* for every source type text, and String for every text whose base type is
\* no key of the mapping table.
C18_TypeMapperIsTotal ==
    pc = "mapped"
    => /\ returned_type # <<>>
       /\ BaseType(arg_mysql_type) \notin RecognisedBaseTypes => returned_type = <<"String">>

\* the base type UUID is not recognised, with a parameter list and in lower case
C18_Witness ==
    /\ pc = "mapped"
    /\ arg_mysql_type = <<"uuid", "(", "2", ")">>
    /\ BaseType(arg_mysql_type) = <<"UUID">>
    /\ returned_type = <<"String">>

\* TINYINT in any letter case followed at once by one parameter in parentheses
IsTinyintWithParameter(type_text) ==
    /\ Len(type_text) >= 4
    /\ upper(type_text)[1] = "TINYINT"
    /\ type_text[2] = "("
    /\ type_text[4] = ")"

\* C19: TINYINT(1) in any letter case maps to Bool, and TINYINT(n) with any
\* other parameter n maps to Int8.
C19_TinyintOneIsBool ==
    (pc = "mapped" /\ IsTinyintWithParameter(arg_mysql_type))
    => returned_type = IF arg_mysql_type[3] = "1" THEN <<"Bool">> ELSE <<"Int8">>

\* TinyInt(10), whose parameter begins with 1, maps to Int8
C19_Witness ==
    /\ pc = "mapped"
    /\ arg_mysql_type = <<"TinyInt", "(", "10", ")">>
    /\ returned_type = <<"Int8">>

\* DECIMAL in any letter case followed at once by a closed parameter list
IsDecimalWithParameters(type_text) ==
    /\ Len(type_text) >= 3
    /\ upper(type_text)[1] = "DECIMAL"
    /\ type_text[2] = "("
    /\ ")" \in Range(type_text)

\* C20: DECIMAL(p,s) in any letter case maps to Decimal( ) around the text
\* that stands between the parentheses of the source type, unchanged.
C20_DecimalKeepsParameters ==
    (pc = "mapped" /\ IsDecimalWithParameters(arg_mysql_type))
    => returned_type =
          <<"Decimal", "(">>
          \o SubSeq(arg_mysql_type, 3, PyFind(arg_mysql_type, ")"))
          \o <<")">>

\* decimal(10, 2) keeps the blank of its parameter list
C20_Witness ==
    /\ pc = "mapped"
    /\ arg_mysql_type = <<"decimal", "(", "10", ",", " ", "2", ")">>
    /\ returned_type = <<"Decimal", "(", "10", ",", " ", "2", ")">>


\* the integer source types and the target types of their widths
IntegerTargets ==
    [base \in {"TINYINT", "SMALLINT", "MEDIUMINT", "INT", "INTEGER", "BIGINT"} |->
        CASE base = "TINYINT" -> [signed |-> "Int8", unsigned |-> "UInt8"]
          [] base = "SMALLINT" -> [signed |-> "Int16", unsigned |-> "UInt16"]
          [] base \in {"MEDIUMINT", "INT", "INTEGER"} -> [signed |-> "Int32", unsigned |-> "UInt32"]
          [] base = "BIGINT" -> [signed |-> "Int64", unsigned |-> "UInt64"]]

\* an integer base type in any letter case, an optional display width, an
\* optional UNSIGNED; TINYINT(1), the boolean, is no integer type
HasDisplayWidth(type_text) ==
    Len(type_text) >= 4 /\ type_text[2] = "(" /\ type_text[4] = ")"

IsUnsigned(type_text) ==
    Len(type_text) >= 3 /\ SubSeq(upper(type_text), Len(type_text) - 1, Len(type_text)) = <<" ", "UNSIGNED">>

IsIntegerType(type_text) ==
    /\ type_text # <<>>
    /\ upper(type_text)[1] \in DOMAIN IntegerTargets
    /\ Len(type_text) = (IF HasDisplayWidth(type_text) THEN 4 ELSE 1)
                        + (IF IsUnsigned(type_text) THEN 2 ELSE 0)
    /\ ~(upper(type_text)[1] = "TINYINT" /\ HasDisplayWidth(type_text) /\ type_text[3] = "1")

IntegerTarget(type_text) ==
    IF IsUnsigned(type_text) THEN <<IntegerTargets[upper(type_text)[1]].unsigned>>
    ELSE <<IntegerTargets[upper(type_text)[1]].signed>>

\* C21: every integer source type, with or without a display width, maps to
\* the unsigned integer type of its width when it is UNSIGNED and to the
\* signed one otherwise.
C21_IntegersKeepSignedness ==
    (pc = "mapped" /\ IsIntegerType(arg_mysql_type))
    => returned_type = IntegerTarget(arg_mysql_type)

\* the part of C21 that holds: the types that are not both UNSIGNED and
\* written with a display width
C21_IntegersKeepSignednessWithoutWidth ==
    (pc = "mapped" /\ IsIntegerType(arg_mysql_type)
       /\ ~(HasDisplayWidth(arg_mysql_type) /\ IsUnsigned(arg_mysql_type)))
    => returned_type = IntegerTarget(arg_mysql_type)

\* INT(11) UNSIGNED maps to the signed Int32
C21_UnsignedWithWidthIsSigned ==
    /\ pc = "mapped"
    /\ arg_mysql_type = <<"INT", "(", "11", ")", " ", "UNSIGNED">>
    /\ IsIntegerType(arg_mysql_type)
    /\ returned_type = <<"Int32">>


\* C22: a connection-level error of the source or of the target (a query
\* that the server does not answer) is not turned into a Failed result of
\* the table: it ends the run, and no table is migrated after it.
C22_ConnectionErrorAbortsRun ==
    \A i \in DOMAIN results :
        fault_log[i] => (results[i].success /\ i = Len(results) /\ pc \in {"summary", "done"})

\* the part of C22 that holds: when the source connection cannot be
\* established, the run ends before any file is listed or any statement sent
C22_FailedConnectAbortsRun ==
    pc = "aborted" => (csv_files = <<>> /\ results = <<>> /\ ch_ops = <<>>
                       /\ clickhouse = ch_before)

\* the count query of an existing source table was not answered: the table
\* got a Failed result and the next table was migrated
C22_LostConnectionIsFailedTable ==
    \E i \in DOMAIN results :
        /\ i < Len(results)
        /\ fault_log[i]
        /\ ~results[i].success
        /\ results[i].error_message = SOURCE_ABSENT_OR_EMPTY
        /\ mysql_has(results[i].table_mapping.mysql_table)
        /\ Len(MySQLTables[results[i].table_mapping.mysql_table].rows) > 0
        /\ results[i + 1].success


(***************************************************************************)
(* The mapping loader on its own: migrate_table reads one mapping file of  *)
(* a listing of two, and migrate_all_tables goes on to the second.         *)
(***************************************************************************)
LoaderNames ==
    { <<"users", "-", "users", ".csv">>, <<"users", "-", "users", "-", "v2", ".csv">>,
      <<"orders", "-", "facts", ".csv">>, <<"users", ".csv">>,
      <<"users", "-", ".csv">>, <<"-", "users", ".csv">> }

LoaderHeaders ==
    { CsvHeader, <<T("clickhouse"), T("mysql")>>, <<T("mysql"), T("clickhouse"), T("note")>>,
      <<T("mysql"), T("ck")>>, <<T("my"), T("clickhouse")>>, <<T("mysql")>>, <<>> }

\* rows of cells: none, trimmed and untrimmed names, one source field twice,
\* a row with one cell only
LoaderRows ==
    { <<>>,
      << <<T("id"), T("uid")>> >>,
      << <<<<" ", "id", "\t">>, <<"uid", " ">>>>, <<T("name"), <<" ", "name">>>> >>,
      << <<T("id"), T("uid")>>, <<<<"id", " ">>, T("key")>> >>,
      << <<T("id"), T("uid")>>, <<T("name")>> >>,
      << <<T("id"), T("uid"), T("x")>> >> }

\* an empty file has no header and no rows
LoaderFiles ==
    {[name |-> n, header |-> h, rows |-> r] :
        n \in LoaderNames, h \in LoaderHeaders \ {<<>>}, r \in LoaderRows}
    \cup {[name |-> n, header |-> <<>>, rows |-> <<>>] : n \in LoaderNames}

LoaderInit ==
    /\ \E f \in LoaderFiles : directory = <<f, F_users>>
    /\ batch_size = MaxBatchSize
    /\ auto_recreate = FALSE
    /\ skip_existing = FALSE
    /\ clickhouse = [t \in CHTableNames |-> NoTable]
    /\ pc = "pending"
    /\ csv_files = directory
    /\ file_idx = 1
    /\ results = <<>>
    /\ summary = <<0, 0, 0>>
    /\ table_mapping = None
    /\ mysql_row_count = 0
    /\ mysql_structure = <<>>
    /\ table_comment = <<>>
    /\ clickhouse_fields = <<>>
    /\ final_field_mappings = <<>>
    /\ rownumber = 0
    /\ batch_data = <<>>
    /\ total_migrated = 0
    /\ result = None
    /\ raised = <<>>
    /\ faulted = FALSE
    /\ fault_log = <<>>
    /\ ch_ops = <<>>
    /\ ch_before = clickhouse
    /\ fetched = <<>>
    /\ submitted = <<>>
    /\ NoUnitCall

LoaderNext ==
    \/ LoadMapping
    \/ AppendResult

LoaderSpec == LoaderInit /\ [][LoaderNext]_vars

\* the first file of the listing has been read by load_csv_mapping
FirstLoaded ==
    \/ pc \in {"check_source", "returned"} /\ file_idx = 1
    \/ file_idx = 2

LoadFailed == IF file_idx = 1 THEN pc = "returned" ELSE TRUE

\* the text of the file name before its extension .csv
Stem(name) == SelectSeq(name, LAMBDA tok : tok # ".csv")

SourceTable(name) ==
    SubSeq(Stem(name), 1, PyFind(Stem(name), "-"))

TargetTable(name) ==
    LET rest == SubSeq(Stem(name), PyFind(Stem(name), "-") + 2, Len(Stem(name)))
    IN  IF "-" \in Range(rest) THEN SubSeq(rest, 1, PyFind(rest, "-")) ELSE rest

\* the file name encodes <sourceTable>-<targetTable>
EncodesTablePair(name) ==
    "-" \in Range(name) /\ SourceTable(name) # <<>> /\ TargetTable(name) # <<>>

HasBothColumns(header) ==
    T("mysql") \in Range(header) /\ T("clickhouse") \in Range(header)

Trimmed(text) ==
    SelectSeq(text, LAMBDA tok : tok \notin {" ", "\t"})

\* one entry per row: the trimmed source name, the trimmed target name
EntryOfRow(header, row) ==
    <<Trimmed(row[IndexOf(header, T("mysql"))]),
      <<Trimmed(row[IndexOf(header, T("clickhouse"))]), <<"String">>>>>>

\* C23: load_csv_mapping fails, leaving no TableMapping and a Failed result
\* for that table, when the file name encodes no table pair or a required
\* column is absent; otherwise it returns the pair of the file name and one
\* entry per row, with the names trimmed.
C23_LoaderFailsOrReturnsMapping ==
    (FirstLoaded /\ file_idx = 1)
    => LET f == csv_files[1]
       IN  IF ~EncodesTablePair(f.name) \/ ~HasBothColumns(f.header)
           THEN pc = "returned" /\ table_mapping = None /\ ~result.success
           ELSE /\ pc = "check_source"
                /\ table_mapping # None
                /\ table_mapping.mysql_table = SourceTable(f.name)
                /\ table_mapping.clickhouse_table = TargetTable(f.name)
                /\ table_mapping.field_mappings =
                      [i \in DOMAIN f.rows |-> EntryOfRow(f.header, f.rows[i])]

\* the rows are complete and name each source field once
HasPlainRows(f) ==
    /\ f.rows # <<>>
    /\ \A i \in DOMAIN f.rows : Len(f.rows[i]) >= Len(f.header)
    /\ HasBothColumns(f.header) =>
          \A i, j \in DOMAIN f.rows :
              EntryOfRow(f.header, f.rows[i])[1] = EntryOfRow(f.header, f.rows[j])[1] => i = j

\* the part of C23 that holds: files whose name has text on both sides of
\* the '-' or no '-' at all, with at least one row, complete rows and no
\* source field named twice
C23_LoaderFailsOrReturnsMappingForPlainFiles ==
    (FirstLoaded /\ file_idx = 1 /\ HasPlainRows(csv_files[1])
       /\ ("-" \in Range(csv_files[1].name) => EncodesTablePair(csv_files[1].name)))
    => C23_LoaderFailsOrReturnsMapping

\* a failed load is a Failed result of that table only: the second file is
\* loaded after it
C23_FailedLoadIsForThatTableOnly ==
    file_idx = 2
    => /\ Len(results) = 1 /\ ~results[1].success /\ results[1].table_mapping = None
       /\ pc = "check_source" => table_mapping.mysql_table = T("users")

\* a file with the header mysql,ck and no row is loaded without an error
C23_MissingColumnIsAccepted ==
    /\ pc = "check_source" /\ file_idx = 1
    /\ csv_files[1].name = <<"users", "-", "users", ".csv">>
    /\ csv_files[1].header = <<T("mysql"), T("ck")>>
    /\ csv_files[1].rows = <<>>
    /\ table_mapping.field_mappings = <<>>


\* migrate_table has returned on the row count of the source table
ReturnedOnRowCount ==
    /\ pc = "returned"
    /\ table_mapping # None
    /\ raised = <<>>
    /\ ~result.success
    /\ result.error_message = SOURCE_ABSENT_OR_EMPTY

\* C24: the row count read from the source distinguishes a table that exists
\* and has zero rows from a query that failed: only the former is a row
\* count of 0, the latter is reported as an error.
C24_FailedCountIsNotZeroRows ==
    ReturnedOnRowCount
    => /\ mysql_has(table_mapping.mysql_table)
       /\ MySQLTables[table_mapping.mysql_table].rows = <<>>
       /\ ~faulted

\* the part of C24 that holds: a count that is not 0 is the number of rows
\* of the table, and an empty table that exists is counted as 0
C24_AnsweredCountIsExact ==
    /\ pc = "check_target"
       => (mysql_row_count = Len(MySQLTables[table_mapping.mysql_table].rows)
           /\ mysql_row_count > 0)
    /\ (pc = "returned" /\ table_mapping # None /\ ~faulted /\ ch_ops = <<>>
          /\ raised = <<>> /\ mysql_has(table_mapping.mysql_table)
          /\ MySQLTables[table_mapping.mysql_table].rows = <<>>)
       => (mysql_row_count = 0 /\ ReturnedOnRowCount)

\* the count query of a table that does not exist was answered with an
\* error, and migrate_table saw the row count 0
C24_MissingTableCountsZero ==
    /\ ReturnedOnRowCount
    /\ ~faulted
    /\ ~mysql_has(table_mapping.mysql_table)
    /\ mysql_row_count = 0


\* migrate_table runs, or has just returned, for the target table of the
\* attempt before it, which failed on an insert after it had created the table
IsRerun ==
    /\ pc \in {"check_source", "check_target", "read_structure", "create_table",
               "fetch", "insert", "verify", "returned"}
    /\ Loaded
    /\ Len(results) >= 1
    /\ file_idx = Len(results) + 1
    /\ ~results[Len(results)].success
    /\ results[Len(results)].table_mapping # None
    /\ results[Len(results)].table_mapping.clickhouse_table = table_mapping.clickhouse_table
    /\ results[Len(results)].table_mapping.mysql_table = table_mapping.mysql_table
    /\ results[Len(results)].error_message[1] = "insert_batch failed"
    /\ ch_exists(ch_before, table_mapping.clickhouse_table)

Accepted(op) == \E i \in DOMAIN ch_ops : ch_ops[i].op = op /\ ch_ops[i].ok

\* the target table holds each source row once: row r holds under the target
\* name of each mapped column the coerced cell of source row r
HoldsEachSourceRowOnce(table) ==
    /\ Len(table.rows) = Len(SourceRows)
    /\ \A r \in DOMAIN table.rows :
          \A j \in DOMAIN MappedPositions :
              table.rows[r][ExpectedNames[j]] =
                  Coerced(SourceRows[r][MappedPositions[j]], ExpectedTypes[j])

\* C25: a migrate_table that is run again for a table whose attempt before
\* failed after the target was created and partly filled never appends to the
\* rows that attempt left: a row is inserted only after the table was dropped
\* and created again; with auto_recreate_table (and every query answered) the
\* table ends holding each source row once; with skip_existing_tables, and
\* with neither policy, nothing is inserted and the target stays as it was.
C25_RerunNeverAppends ==
    IsRerun
    => /\ InsertOps # <<>> => (Accepted("DROP") /\ Accepted("CREATE"))
       /\ ~Accepted("DROP") => clickhouse = ch_before
       /\ (auto_recreate /\ ~skip_existing /\ ~faulted /\ pc = "returned")
             => /\ result.success
                /\ result.clickhouse_rows = Len(SourceRows)
                /\ HoldsEachSourceRowOnce(clickhouse[table_mapping.clickhouse_table])
       /\ (skip_existing \/ ~auto_recreate)
             => (InsertOps = <<>> /\ clickhouse = ch_before)
       /\ (skip_existing /\ ~faulted /\ pc = "returned") => result.success
       /\ (~skip_existing /\ ~auto_recreate /\ pc = "returned") => ~result.success

\* the attempt before left two of the three rows; this one, with
\* auto_recreate_table, ended with the three source rows
C25_Witness ==
    /\ IsRerun
    /\ pc = "returned"
    /\ auto_recreate /\ ~skip_existing /\ ~faulted
    /\ Len(ch_before[table_mapping.clickhouse_table].rows) = 2
    /\ Len(clickhouse[table_mapping.clickhouse_table].rows) = 3
    /\ result.success


\* migrate_table has failed while it read the source schema, or because the
\* mapping names no column of the source table
FailedOnSchema ==
    /\ pc = "returned"
    /\ Loaded
    /\ raised \in {<<"get_table_structure failed", "query failed">>,
                   <<"create_table failed", "no field">>}

\* C26: the target table is checked for existence and dropped only after the
\* source schema has been read, so that a migration that fails while reading
\* the schema, or because no column is mapped, leaves a target table that
\* existed, and its rows, in place.
C26_TargetKeptUntilSchemaRead ==
    /\ ch_ops # <<>> => mysql_structure # <<>>
    /\ FailedOnSchema => clickhouse = ch_before

\* the part of C26 that holds: unless the table is to be recreated, a
\* migration that fails on the schema leaves the target as it was
C26_TargetKeptUnlessRecreated ==
    (FailedOnSchema /\ (skip_existing \/ ~auto_recreate)) => clickhouse = ch_before

\* no column is mapped and every query was answered: the target table that
\* existed was dropped before the schema was read, and is gone
C26_TargetDroppedBeforeSchemaRead ==
    /\ FailedOnSchema
    /\ ~faulted
    /\ raised = <<"create_table failed", "no field">>
    /\ ch_exists(ch_before, table_mapping.clickhouse_table)
    /\ ch_before[table_mapping.clickhouse_table].rows # <<>>
    /\ ~ch_exists(clickhouse, table_mapping.clickhouse_table)
    /\ [i \in DOMAIN ch_ops |-> ch_ops[i].op] = <<"EXISTS", "DROP">>


\* migrate_table has failed on a rejected bulk insert
FailedOnBulkInsert ==
    /\ pc = "returned"
    /\ Loaded
    /\ BulkFailures # {}

\* the rows of the target table of this migration
TargetRows == clickhouse[table_mapping.clickhouse_table].rows

\* target row r holds the coerced cells of the mapped columns of source row r
IsSourceRow(r) ==
    \A j \in DOMAIN MappedPositions :
        TargetRows[r][ExpectedNames[j]] =
            Coerced(SourceRows[r][MappedPositions[j]], ExpectedTypes[j])

SingleRowInserts == {i \in DOMAIN ch_ops : ch_ops[i].op = "INSERT" /\ ~ch_ops[i].bulk /\ ch_ops[i].ok}

\* C27: when a migration fails on a rejected bulk insert, the target holds
\* the rows of the batches whose bulk insert was accepted and no other row:
\* the single-row retry leaves no row of the failed batch.
C27_FailedBatchLeavesNoRow ==
    FailedOnBulkInsert
    => /\ Len(TargetRows) = total_migrated
       /\ \A r \in DOMAIN TargetRows : IsSourceRow(r)

\* the part of C27 that holds: the target holds the rows of the accepted
\* batches followed by the rows of the failed batch that were accepted when
\* retried, at most 5, in source order
C27_FailedBatchLeavesRetriedRows ==
    FailedOnBulkInsert
    => /\ Len(TargetRows) = total_migrated + Cardinality(SingleRowInserts)
       /\ Cardinality(SingleRowInserts) <= DIAGNOSTIC_ROWS
       /\ \A r \in DOMAIN TargetRows : IsSourceRow(r)

\* the second batch of "users", one row, was rejected and its row accepted
\* when retried: the failed migration left three rows
C27_RetriedRowStays ==
    /\ FailedOnBulkInsert
    /\ table_mapping.mysql_table = T("users")
    /\ total_migrated = 2
    /\ Len(TargetRows) = 3
    /\ ~result.success


\* migrate_table runs, past the row count, or has returned, for a target
\* table that existed when it began, under neither policy
ExistingTargetNoPolicy ==
    /\ pc \in {"check_target", "read_structure", "create_table", "fetch", "insert",
               "verify", "returned"}
    /\ Loaded
    /\ mysql_row_count > 0
    /\ ~skip_existing /\ ~auto_recreate
    /\ ch_exists(ch_before, table_mapping.clickhouse_table)

\* C28: when the target table exists and skip_existing_tables and
\* auto_recreate_table are both false, migrate_table sends no DROP and no
\* INSERT and leaves the target as it was; it ends Failed, and when the
\* schema was read and a column is mapped, on the CREATE that the target
\* rejects because the table exists.
C28_NoPolicyLeavesExistingTable ==
    ExistingTargetNoPolicy
    => /\ \A i \in DOMAIN ch_ops : ch_ops[i].op \in {"EXISTS", "CREATE"} /\ (ch_ops[i].op = "CREATE" => ~ch_ops[i].ok)
       /\ clickhouse = ch_before
       /\ pc \notin {"fetch", "insert", "verify"}
       /\ pc = "returned"
            => /\ ~result.success
               /\ raised # <<>>
               /\ (mysql_structure # <<>> /\ clickhouse_fields # <<>>)
                     => /\ raised = <<"create_table failed", "CREATE rejected">>
                        /\ [i \in DOMAIN ch_ops |-> ch_ops[i].op] = <<"EXISTS", "CREATE">>

\* the table left by an earlier load is still there, with its rows, after the
\* migration of "users" failed on CREATE with every query answered
C28_Witness ==
    /\ ExistingTargetNoPolicy
    /\ pc = "returned"
    /\ ~faulted
    /\ table_mapping.clickhouse_table = T("users")
    /\ raised = <<"create_table failed", "CREATE rejected">>
    /\ clickhouse[T("users")] = LegacyUsers
    /\ ~result.success


\* migrate_table has read the schema of its source table
SchemaRead ==
    /\ pc \in {"create_table", "fetch", "insert", "verify", "returned"}
    /\ Loaded
    /\ mysql_structure # <<>>

\* the type, as declared, of the source column of the j-th target column
DeclaredType(j) == MySQLTables[table_mapping.mysql_table].columns[MappedPositions[j]][2]

\* C29: the type the schema reader returns for a source column, which
\* migrate_table hands to the type mapper, keeps the parameters the column was
\* declared with: the target column gets the type that the mapper gives for
\* the declared type (Decimal(10,2) for decimal(10,2), Bool for tinyint(1)),
\* in the column list built and in the table created.
C29_DeclaredParametersReachTarget ==
    SchemaRead
    => /\ \A j \in DOMAIN clickhouse_fields :
             clickhouse_fields[j][2] = map_mysql_type_to_clickhouse(DeclaredType(j))
       /\ \A i \in DOMAIN mysql_structure :
             mysql_structure[i][2] = MySQLTables[table_mapping.mysql_table].columns[i][2]

\* the part of C29 that holds: the target column gets the type that the
\* mapper gives for the name of the declared type, without its parameters
C29_TargetTypeFollowsTypeName ==
    SchemaRead
    => /\ Len(clickhouse_fields) = Len(MappedPositions)
       /\ \A j \in DOMAIN clickhouse_fields :
             clickhouse_fields[j][2] = map_mysql_type_to_clickhouse(<<DeclaredType(j)[1]>>)

\* the table created for "prices": the column declared decimal(10,2) has the
\* type Decimal, the column declared tinyint(1) has the type Int8
C29_ParametersAreLost ==
    /\ SchemaRead
    /\ table_mapping.mysql_table = T("prices")
    /\ Accepted("CREATE")
    /\ clickhouse[T("prices")].exists
    /\ clickhouse[T("prices")].fields =
          << <<T("sku"), <<"Int32">>, <<>>>>,
             <<T("price"), <<"Decimal">>, <<>>>>,
             <<T("active"), <<"Int8">>, <<>>>> >>


\* the value is not NULL and the target type cannot take it: a string that
\* spells no number, a string that matches no accepted date format, or a
\* native value of a type that the target type has no reading for
IsDegraded(value, target_type) ==
    LET family == TypeFamily(target_type)
    IN  /\ value # None
        /\ \/ /\ family \in {"integer", "float", "decimal"}
              /\ \/ value.py = "str" /\ ~SpellsNumber(value.str)
                 \/ value.py \in {"bytes", "date", "datetime"}
           \/ /\ family \in {"date", "timestamp"}
              /\ \/ value.py = "str" /\ FormatsMatching(value.str) = {}
                 \/ value.py \in {"int", "bool", "float", "Decimal", "bytes"}
           \/ /\ family = "boolean"
              /\ value.py \in {"Decimal", "bytes", "date", "datetime"}

\* a printed line that names a field, the original value and the value chosen
NamesDegradation(printed_line) ==
    /\ {"field_name", "value", "converted"} \subseteq DOMAIN printed_line
    /\ printed_line.value = arg_value
    /\ printed_line.converted = converted_value

\* C30: every coercion that degrades a value that is not NULL to the default
\* of its target type prints a line that names the field, the original value
\* and the default chosen.
C30_DegradationIsPrinted ==
    (CellDone /\ IsDegraded(arg_value, arg_field_type))
    => /\ converted_value = DocumentedDefault(TypeFamily(arg_field_type))
       /\ \E k \in DOMAIN printed : NamesDegradation(printed[k])

\* what holds instead: the value is degraded to the default, and a call of
\* _convert_value_for_clickhouse prints nothing at all about it
C30_DegradationIsSilent ==
    (pc = "converted" /\ IsDegraded(arg_value, arg_field_type))
    => /\ converted_value = DocumentedDefault(TypeFamily(arg_field_type))
       /\ printed = <<>>

\* the string 'abc' for an Int32 column became 0 and nothing was printed
C30_UnparseableNumberIsSilent ==
    /\ pc = "converted"
    /\ arg_value = PyStr(<<"a", "b", "c">>)
    /\ arg_field_type = <<"Int32">>
    /\ IsDegraded(arg_value, arg_field_type)
    /\ converted_value = PyInt(0)
    /\ printed = <<>>

=============================================================================
